---- MODULE Spec2Model ----
(***************************************************************************)
(* KUTAgent: the tool-calling orchestration loop (Agent.Run,               *)
(* Agent.runInference, runTools), the provider client                      *)
(* (Ollama.sendChatRequest) and the tool executor (ToolCall.Run).          *)
(*                                                                         *)
(* Go strings that the code only stores, compares and concatenates are TLA+ *)
(* strings.  Strings the code parses (path, url and command arguments) are *)
(* sequences of one-character strings, so that filepath.Clean,             *)
(* strings.HasPrefix and url.Parse are computed character by character.    *)
(***************************************************************************)
EXTENDS Integers, Sequences, FiniteSets, TLC

VARIABLES
    pc,             \* control point of Agent.Run / runInference / runTools
    root,           \* the process working directory (os.Getwd)
    conversations,  \* Agent.Run: the conversation kept across turns
    turns,          \* number of user messages read so far
    messages,       \* runInference: the message history of the current run
    step,           \* runInference: loop counter
    chatResp,       \* runInference: the last provider reply
    result,         \* what runInference returned (reply or error)
    tcIdx,          \* runTools: position of the range loop over ToolCalls
    tc,             \* the tool call whose Run is in flight (or ran last)
    toolRes,        \* what the last tc.Run returned
    ioLog,          \* file, process and network operations of the last tc.Run
    started,        \* the calls of the current batch whose Run began, in order
    inflight,       \* number of tc.Run invocations that have not returned
    nreq,           \* provider requests issued by the current run
    lastReq,        \* message list carried by the last provider request
    replyLog,       \* kinds of the replies received by the current run
    batches,        \* per assistant message of the run: its index and its calls
    budget,         \* tool calls the provider may still request
    world,          \* what the environment may do: the directory trees the file
                    \* system may hold (disk), the durations an exchange or a
                    \* command may take (pace), the calls a reply may list (menu)
    now,            \* the clock, in seconds
    ctx             \* the context.Context of Agent.Run / runInference

vars == <<pc, root, conversations, turns, messages, step, chatResp, result,
          tcIdx, tc, toolRes, ioLog, started, inflight, nreq, lastReq, replyLog,
          batches, budget, world, now, ctx>>

(***************************************************************************)
(* Bounds of the model.                                                    *)
(***************************************************************************)
MaxPathLen == 5     \* longest path argument, in characters
MaxCalls == 2       \* most tool calls in one provider reply
MaxTotalCalls == 5  \* most tool calls requested over one run
MaxTurns == 2       \* most user messages read by Agent.Run
MaxSessionCalls == 2 \* most tool calls requested over one session of Agent.Run
MaxOver == 2        \* files of a directory beyond the entry cap of list_files
MaxLongFiles == 280 \* files with the longest paths in one directory
MaxListPathLen == 2 \* longest path argument of list_files over large directories
ShortRun == 5       \* seconds a command or an exchange may take
LongRun == 25       \* seconds a slow command or exchange may take
CallerDeadline == 40 \* the deadline of a caller that imposes one
CancelTime == 30    \* the time at which a caller cancels the run
MaxTimedCalls == 1  \* most tool calls requested over one run with a running clock
MaxExtraBytes == 5  \* most bytes by which an output or a body exceeds its cap
MaxGrowth == 1      \* most bytes appended to a file while read_file runs
MaxFsPathLen == 3   \* longest path argument on a file system with links
LateStart == 20     \* the time at which a late batch of tool calls begins

(***************************************************************************)
(* Program constants.                                                      *)
(***************************************************************************)
maxSteps == 5
maxSize == 1048576
maxEntries == 5000
maxOutputBytes == 1048576
maxCmdOutput == 1048576
maxBytes == 1048576
StatusOK == 200
runTimeout == 60

(***************************************************************************)
(* Strings as character sequences.                                         *)
(***************************************************************************)
\* the concatenation of the pieces s[lo..hi]
RECURSIVE Concat(_, _, _)
Concat(s, lo, hi) ==
    IF lo > hi THEN ""
    ELSE IF lo = hi THEN s[lo]
    ELSE LET mid == (lo + hi) \div 2
         IN  Concat(s, lo, mid) \o Concat(s, mid + 1, hi)

Str(s) == Concat(s, 1, Len(s))

\* len(s) in bytes, s a sequence of pieces
RECURSIVE ByteLen(_)
ByteLen(s) == IF s = <<>> THEN 0 ELSE Len(Head(s)) + ByteLen(Tail(s))

HasPrefix(s, p) == Len(s) >= Len(p) /\ SubSeq(s, 1, Len(p)) = p

\* the text x repeated n times
RECURSIVE Times(_, _)
Times(x, n) ==
    IF n = 0 THEN ""
    ELSE IF n = 1 THEN x
    ELSE LET half == Times(x, n \div 2)
         IN  half \o half \o (IF n % 2 = 1 THEN x ELSE "")

\* a text of n bytes, n > 1, whose last two bytes differ from the others
Filler(n) == Times("o", n - 2) \o "yz"

RECURSIVE SplitFrom(_, _, _)
SplitFrom(s, i, cur) ==
    IF i > Len(s) THEN <<cur>>
    ELSE IF s[i] = "/" THEN <<cur>> \o SplitFrom(s, i + 1, <<>>)
    ELSE SplitFrom(s, i + 1, Append(cur, s[i]))

\* the components of s between path separators (empty ones included)
Split(s) == SplitFrom(s, 1, <<>>)

DotDot == <<".", ".">>

RECURSIVE CleanStack(_, _, _, _)
CleanStack(comps, i, out, rooted) ==
    IF i > Len(comps) THEN out
    ELSE LET c == comps[i] IN
         IF c = <<>> \/ c = <<".">> THEN CleanStack(comps, i + 1, out, rooted)
         ELSE IF c = DotDot
              THEN IF Len(out) > 0 /\ out[Len(out)] # DotDot
                   THEN CleanStack(comps, i + 1, SubSeq(out, 1, Len(out) - 1), rooted)
                   ELSE IF rooted
                        THEN CleanStack(comps, i + 1, out, rooted)
                        ELSE CleanStack(comps, i + 1, Append(out, c), rooted)
              ELSE CleanStack(comps, i + 1, Append(out, c), rooted)

RECURSIVE JoinComps(_)
JoinComps(comps) ==
    IF comps = <<>> THEN <<>>
    ELSE IF Len(comps) = 1 THEN comps[1]
    ELSE comps[1] \o <<"/">> \o JoinComps(Tail(comps))

\* filepath.Clean
Clean(s) ==
    IF s = <<>> THEN <<".">>
    ELSE LET rooted == s[1] = "/"
             out == CleanStack(Split(s), 1, <<>>, rooted)
         IN  IF rooted THEN <<"/">> \o JoinComps(out)
             ELSE IF out = <<>> THEN <<".">> ELSE JoinComps(out)

\* filepath.Join(a, b) for a non-empty first element
Join(a, b) == Clean(a \o <<"/">> \o b)

(***************************************************************************)
(* context.Context: its deadline and the time at which the caller cancels  *)
(* it (None: never); parent is the deadline the caller imposed.            *)
(***************************************************************************)
None == -1

Min(a, b) == IF a < b THEN a ELSE b
Max(a, b) == IF a > b THEN a ELSE b

Earlier(a, b) == IF a = None THEN b ELSE IF b = None THEN a ELSE Min(a, b)

Context(deadline, cancelAt) ==
    [parent |-> deadline, deadline |-> deadline, cancelAt |-> cancelAt]

\* context.TODO()
Background == Context(None, None)

\* the time at which <-c.Done() fires
DoneAt(c) == Earlier(c.deadline, c.cancelAt)

\* c is done at time t
IsDone(c, t) == DoneAt(c) # None /\ DoneAt(c) <= t

\* an operation begun at t that takes d seconds is cut short by c
CutShort(c, t, d) == DoneAt(c) # None /\ t + d >= DoneAt(c)

\* c.Err() once c is done
CtxErr(c) ==
    IF c.cancelAt # None /\ (c.deadline = None \/ c.cancelAt <= c.deadline)
    THEN "context canceled"
    ELSE "context deadline exceeded"

\* context.WithTimeout(c, d seconds) at time t
WithTimeoutFresh(c, t, d) == [c EXCEPT !.deadline = t + d]
WithTimeout(c, t, d) == [c EXCEPT !.deadline = Earlier(c.deadline, t + d)]

(***************************************************************************)
(* Tool-call arguments: map[string]any decoded from JSON.  Every key holds *)
(* a tagged value; t = "absent" stands for a key that is not in the map.   *)
(***************************************************************************)
Absent == [t |-> "absent", s |-> <<>>, n |-> 0]
StrVal(s) == [t |-> "string", s |-> s, n |-> 0]
NumVal(n) == [t |-> "number", s |-> <<>>, n |-> n]
BoolVal(b) == [t |-> "bool", s |-> <<>>, n |-> IF b THEN 1 ELSE 0]

NoArgs == [path |-> Absent, content |-> Absent, command |-> Absent,
           url |-> Absent, timeout_sec |-> Absent]

\* v.(string) with the ok result dropped: the zero value "" on a mismatch
AsStringSprint(v) ==
    IF v.t = "string" THEN v.s ELSE IF v.t = "absent" THEN <<>> ELSE <<"1">>
AsString(v) == IF v.t = "string" THEN v.s ELSE <<>>

\* ToolCall: ID and Function{Name, Arguments}
Call(id, name, args) == [id |-> id, name |-> name, args |-> args]

NoCall == Call("", "", NoArgs)

(***************************************************************************)
(* Results of ToolCall.Run: (string, error) and, beside it, the operations *)
(* the call performed on the file system, on processes and on the network. *)
(***************************************************************************)
Ok(out, io) == [err |-> FALSE, out |-> out, io |-> io]
Fail(msg, io) == [err |-> TRUE, out |-> msg, io |-> io]
NoResult == Ok("", <<>>)

\* an operation, its target, the timeout of its own (0: none) in seconds, the
\* time at which it begins and the time at which its context is done; for an
\* operation on the file system, the place the operating system resolves the
\* target to and the number of bytes it hands back
Op(kind, target) ==
    [op |-> kind, target |-> target, limit |-> 0, since |-> 0, until |-> None,
     real |-> target, bytes |-> 0]
TimedOp(kind, target, limit, since, until) ==
    [op |-> kind, target |-> target, limit |-> limit, since |-> since, until |-> until,
     real |-> target, bytes |-> 0]
FileOp(kind, target, real, bytes) ==
    [Op(kind, target) EXCEPT !.real = real, !.bytes = bytes]

\* a result and the time at which Run returns it
At(res, t) == [res |-> res, at |-> t]

(***************************************************************************)
(* What the operating system answers to read_file: os.Getwd, os.Stat       *)
(* (kind and size of the target) and os.ReadFile.  Both follow symbolic    *)
(* links: with real = "outside" a link on the way resolves the target to   *)
(* OutsidePlace.  Another process can append grow bytes to the file        *)
(* between os.Stat and os.ReadFile.                                        *)
(***************************************************************************)
FileSizes == {0, maxSize, maxSize + 1}
Still == {0}
Growths == 0..MaxGrowth
NoLinks == {"same"}
Links == {"same", "outside"}
OutsidePlace == <<"/", "e", "t", "c">>
FileEnvsIn(grows, links) ==
    [getwd : {"ok", "error"}, stat : {"enoent", "file", "dir"},
     size : FileSizes, read : {"ok", "error"}, grow : grows, real : links]
FileEnvs == FileEnvsIn(Still, NoLinks)
\* the path components of a clean absolute path
Components(s) == SelectSeq(Split(s), LAMBDA c : c # <<>>)
\* where the operating system finds the object named joined: elsewhere when
\* one of the last below components of joined, all under r, is a link
Resolve(joined, r, e, below) ==
    IF e.real = "outside" /\ Len(Components(joined)) >= Len(Components(r)) + below
    THEN OutsidePlace
    ELSE joined
\* the content of a file of the given size
FileData(size) == "content of " \o ToString(size) \o " bytes"
Now == "2025-08-31T12:44:54+02:00"

ErrOutside == "access outside project root is not allowed"

\* joined == root || strings.HasPrefix(joined, rootWithSep)
WithinRootNoSep(joined, r) == joined = r \/ HasPrefix(joined, r)
WithinRoot(joined, r) == joined = r \/ HasPrefix(joined, r \o <<"/">>)

\* fi.Size() > maxSize
TooLargeInclusive(size) == size >= maxSize
TooLarge(size) == size > maxSize

\* os.ReadFile: the number of bytes it returns, the whole file as it is then
ReadFile(e) == e.size + e.grow

\* case "read_file"
RunReadFile(args, r, e) ==
    LET p == AsString(args.path)
        joined == Join(r, Clean(p))
        stat == FileOp("stat", joined, Resolve(joined, r, e, 1), 0)
        b == ReadFile(e)
        read == FileOp("read", joined, Resolve(joined, r, e, 1), b)
    IN  IF p = <<>> THEN Fail("missing required argument: path", <<>>)
        ELSE IF e.getwd # "ok" THEN Fail("getwd: error", <<>>)
        ELSE IF ~WithinRoot(joined, r) THEN Fail(ErrOutside, <<>>)
        ELSE IF e.stat = "enoent" THEN Fail("stat file: ENOENT", <<stat>>)
        ELSE IF e.stat = "dir" THEN Fail("path is a directory, not a file", <<stat>>)
        ELSE IF TooLarge(e.size)
             THEN Fail("file too large: " \o ToString(e.size) \o " bytes (limit "
                       \o ToString(maxSize) \o ")", <<stat>>)
        ELSE IF e.read # "ok"
             THEN Fail("read file: EIO", <<stat, [read EXCEPT !.bytes = 0]>>)
        ELSE Ok(FileData(b), <<stat, read>>)

(***************************************************************************)
(* list_files.  The directory tree below the target is what                *)
(* filepath.WalkDir visits: its entries in lexical pre-order, each with    *)
(* its path relative to the target, its depth, whether it is a directory   *)
(* and whether reading it failed.  The target itself is visited first.     *)
(* A tree is given by groups, visited in order: a chain of nested          *)
(* directories dirs (none: the files lie in the target itself) that holds  *)
(* n files named stem followed by a number.                                *)
(***************************************************************************)
Entry(rel, depth, dir, bad) == [rel |-> rel, depth |-> depth, dir |-> dir, bad |-> bad]

Group(dirs, stem, n, bad) == [dirs |-> dirs, stem |-> stem, n |-> n, bad |-> bad]

Trees == {
    <<>>,
    <<Group(<<>>, "f", 1, FALSE)>>,
    <<Group(<<"d">>, "f", 1, FALSE), Group(<<>>, "g", 1, FALSE)>>,
    <<Group(<<>>, "f", 1, TRUE)>> }

\* os.Stat and filepath.WalkDir resolve symbolic links in the directories
\* that lead to the target
DirEnvsIn(trees, links) ==
    [getwd : {"ok", "error"}, stat : {"enoent", "file", "dir"}, tree : trees, real : links]
DirEnvs(trees) == DirEnvsIn(trees, NoLinks)

\* the number of entries of the groups tree[1..gi]
RECURSIVE EntriesUpTo(_, _)
EntriesUpTo(tree, gi) ==
    IF gi = 0 THEN 0
    ELSE EntriesUpTo(tree, gi - 1) + Len(tree[gi].dirs) + tree[gi].n

\* the chain dirs[1..k] as a relative path
RECURSIVE Chain(_, _)
Chain(dirs, k) ==
    IF k = 0 THEN <<>>
    ELSE IF k = 1 THEN <<dirs[1]>>
    ELSE Chain(dirs, k - 1) \o <<"/", dirs[k]>>

\* the idx-th entry of group g: its directories, then its files
EntryOf(g, idx) ==
    LET k == Len(g.dirs)
        name == g.stem \o ToString(10000 + idx - k)
    IN  IF idx <= k THEN Entry(Chain(g.dirs, idx), idx, TRUE, FALSE)
        ELSE IF k = 0 THEN Entry(<<name>>, 1, FALSE, g.bad)
        ELSE Entry(Chain(g.dirs, k) \o <<"/", name>>, k + 1, FALSE, g.bad)

\* the i-th entry filepath.WalkDir visits below the target
EntryAt(tree, i) ==
    LET gi == CHOOSE g \in 1..Len(tree) :
                  EntriesUpTo(tree, g - 1) < i /\ i <= EntriesUpTo(tree, g)
    IN  EntryOf(tree[gi], i - EntriesUpTo(tree, gi - 1))

\* the callback passed to filepath.WalkDir: what it returns for the entry d
\* at path, and the paths collected after it
WalkFnWithDirs(d, path, paths, r) ==
    IF d.bad THEN [ret |-> "err", paths |-> paths]
    ELSE IF ~WithinRoot(path, r) THEN [ret |-> "nil", paths |-> paths]
    ELSE [ret |-> "nil", paths |-> Append(paths, path)]
WalkFn(d, path, paths, r) ==
    IF d.bad THEN [ret |-> "err", paths |-> paths]
    ELSE IF d.dir THEN [ret |-> "nil", paths |-> paths]
    ELSE IF ~WithinRoot(path, r) THEN [ret |-> "nil", paths |-> paths]
    ELSE IF Len(paths) + 1 >= maxEntries
         THEN [ret |-> "SkipDir", paths |-> Append(paths, path)]
    ELSE [ret |-> "nil", paths |-> Append(paths, path)]

\* filepath.WalkDir at the entry d; w.skip > 0 while the rest of a directory
\* is skipped after filepath.SkipDir (returned at a file, it skips the rest
\* of the directory that holds the file); w.err once the walk has failed
WalkStep(w, d, joined, r) ==
    IF w.err \/ (w.skip > 0 /\ d.depth >= w.skip) THEN w
    ELSE LET f == WalkFn(d, Join(joined, d.rel), w.paths, r)
         IN  IF f.ret = "err" THEN [w EXCEPT !.err = TRUE]
             ELSE [err |-> FALSE, skip |-> IF f.ret = "SkipDir" THEN d.depth ELSE 0,
                   paths |-> f.paths]

\* filepath.WalkDir over the entries lo..hi, in order
RECURSIVE WalkFrom(_, _, _, _, _, _)
WalkFrom(tree, lo, hi, w, joined, r) ==
    IF lo > hi THEN w
    ELSE IF lo = hi THEN WalkStep(w, EntryAt(tree, lo), joined, r)
    ELSE LET mid == (lo + hi) \div 2
             half == WalkFrom(tree, lo, mid, w, joined, r)
         IN  IF half.err THEN half ELSE WalkFrom(tree, mid + 1, hi, half, joined, r)

TruncatedOutput == "\n... truncated due to output size limit ..."

\* one iteration of the output loop: the pieces written to the builder;
\* o.stop after the break
WriteEntry(o, paths, i) ==
    LET total == o.totalBytes + (IF i > 1 THEN 1 ELSE 0) + ByteLen(paths[i])
        text == o.b \o (IF i > 1 THEN <<"\n">> ELSE <<>>) \o <<Str(paths[i])>>
    IN  IF o.stop THEN o
        ELSE IF total > maxOutputBytes
        THEN [stop |-> TRUE, totalBytes |-> total, b |-> Append(text, TruncatedOutput)]
        ELSE [stop |-> FALSE, totalBytes |-> total, b |-> text]

\* the output loop over paths[lo..hi], in order
RECURSIVE BuildFrom(_, _, _, _)
BuildFrom(paths, lo, hi, o) ==
    IF lo > hi THEN o
    ELSE IF lo = hi THEN WriteEntry(o, paths, lo)
    ELSE LET mid == (lo + hi) \div 2
             half == BuildFrom(paths, lo, mid, o)
         IN  IF half.stop THEN half ELSE BuildFrom(paths, mid + 1, hi, half)

\* case "list_files"
RunListFiles(args, r, e) ==
    LET p == AsString(args.path)
        joined == Join(r, Clean(p))
        \* filepath.WalkDir does not follow a link that is the target itself
        stat == FileOp("stat", joined, Resolve(joined, r, e, 1), 0)
        walk == FileOp("walk", joined, Resolve(joined, r, e, 2), 0)
        w == WalkFrom(e.tree, 1, EntriesUpTo(e.tree, Len(e.tree)),
                      [err |-> FALSE, skip |-> 0, paths |-> <<>>], joined, r)
        o == BuildFrom(w.paths, 1, Len(w.paths),
                       [stop |-> FALSE, totalBytes |-> 0, b |-> <<>>])
    IN  IF p = <<>> THEN Fail("missing required argument: path", <<>>)
        ELSE IF e.getwd # "ok" THEN Fail("getwd: error", <<>>)
        ELSE IF ~WithinRoot(joined, r) THEN Fail(ErrOutside, <<>>)
        ELSE IF e.stat = "enoent" THEN Fail("stat path: ENOENT", <<stat>>)
        ELSE IF e.stat # "dir" THEN Fail("path is not a directory", <<stat>>)
        ELSE IF w.err THEN Fail("walk dir: EIO", <<stat, walk>>)
        ELSE Ok(Str(o.b), <<stat, walk>>)

(***************************************************************************)
(* The optional timeout_sec argument.  A JSON number decodes to float64;   *)
(* NumVal carries it in tenths, so that int(t) truncates.                  *)
(***************************************************************************)
Trunc(tenths) == IF tenths >= 0 THEN tenths \div 10 ELSE -((-tenths) \div 10)

ParseTimeout(v, default) ==
    IF v.t = "number" /\ v.n > 0 THEN Trunc(v.n) ELSE default

DefaultShellTimeout == 30
DefaultFetchTimeout == 20

(***************************************************************************)
(* run_shell.  cmd.Run ends in one of: the shell could not be started, the *)
(* process exited with a code, the process was ended by a signal (also the *)
(* kill sent when the context of the command is done).  The command takes  *)
(* runs seconds and writes its output at its end; with orphan, processes   *)
(* the shell started outlive it and hold the output pipe until then.       *)
(***************************************************************************)
Texts == {"", "out"}
BigTexts ==
    {Filler(maxCmdOutput), Filler(maxCmdOutput + 1), Filler(maxCmdOutput + MaxExtraBytes)}

ShellEnvs(pace, texts) ==
    [how : {"exit", "signal", "startfail"}, code : {0, 1}, output : texts,
     runs : pace, orphan : BOOLEAN]

ExitCodeRaw(e) == e.code
ExitCode(e) ==
    CASE e.how = "exit" -> e.code
      [] e.how = "signal" -> -1
      [] OTHER -> -1

CapOutputInclusive(output) ==
    IF Len(output) >= maxCmdOutput
    THEN SubSeq(output, 1, maxCmdOutput) \o TruncatedOutput
    ELSE output
CapOutput(output) ==
    IF Len(output) > maxCmdOutput
    THEN SubSeq(output, 1, maxCmdOutput) \o TruncatedOutput
    ELSE output

\* cmd.Run under cctx, begun at t0: how it ends, what outBuf holds, when it
\* returns.  cmd.Start fails when cctx is done already; when cctx is done
\* while the shell runs the shell is killed, and Run returns once the
\* output pipe is closed by every process that holds it
CmdRun(e, t0, cctx) ==
    LET expired == IsDone(cctx, t0)
        killed == ~expired /\ e.how # "startfail" /\ CutShort(cctx, t0, e.runs)
    IN  IF expired \/ e.how = "startfail"
        THEN [how |-> "startfail", code |-> e.code, output |-> "", at |-> t0]
        ELSE IF killed /\ ~e.orphan
        THEN [how |-> "signal", code |-> e.code, output |-> "", at |-> DoneAt(cctx)]
        ELSE IF killed
        THEN [how |-> "signal", code |-> e.code, output |-> e.output, at |-> t0 + e.runs]
        ELSE [how |-> e.how, code |-> e.code, output |-> e.output, at |-> t0 + e.runs]

\* timeoutSec > 0
HasTimeout(timeoutSec) == timeoutSec > 0

\* cmd.Start and client.Do look at the context first: once it is done they
\* return its error, and no process is started and no request is sent
BeginsAnyway(cctx, t0) == TRUE
Begins(cctx, t0) == ~IsDone(cctx, t0)

\* case "run_shell"
RunShell(args, e, t0, c) ==
    LET cmdStr == AsString(args.command)
        timeoutSec == ParseTimeout(args.timeout_sec, DefaultShellTimeout)
        cctx == IF HasTimeout(timeoutSec) THEN WithTimeout(c, t0, timeoutSec) ELSE c
        run == CmdRun(e, t0, cctx)
    IN  IF cmdStr = <<>> THEN At(Fail("missing required argument: command", <<>>), t0)
        ELSE At(Ok("exit_code=" \o ToString(ExitCode(run)) \o "\n" \o CapOutput(run.output),
                   IF Begins(cctx, t0)
                   THEN <<TimedOp("exec", cmdStr,
                                  IF HasTimeout(timeoutSec) THEN timeoutSec ELSE 0,
                                  t0, DoneAt(cctx))>>
                   ELSE <<>>),
                run.at)

(***************************************************************************)
(* url.Parse, as far as fetch_url reads its result: the error, the scheme  *)
(* and the host.  The urls of the model hold no fragment, query, userinfo  *)
(* or escape.                                                              *)
(***************************************************************************)
LowerLetters == {"a", "b", "c", "d", "e", "f", "g", "h", "i", "j", "k", "l", "m",
                 "n", "o", "p", "q", "r", "s", "t", "u", "v", "w", "x", "y", "z"}
UpperLetters == {"F", "H", "P", "S", "T"}
SchemeMarks == {"0", "1", "+", "-", "."}

ToLowerChar(c) ==
    CASE c = "F" -> "f" [] c = "H" -> "h" [] c = "P" -> "p"
      [] c = "S" -> "s" [] c = "T" -> "t" [] OTHER -> c

ToLower(s) == [i \in 1..Len(s) |-> ToLowerChar(s[i])]

\* getScheme: [err, scheme, rest]
RECURSIVE GetSchemeFrom(_, _)
GetSchemeFrom(s, i) ==
    IF i > Len(s) THEN [err |-> FALSE, scheme |-> <<>>, rest |-> s]
    ELSE IF s[i] \in LowerLetters \cup UpperLetters THEN GetSchemeFrom(s, i + 1)
    ELSE IF s[i] \in SchemeMarks
         THEN IF i = 1 THEN [err |-> FALSE, scheme |-> <<>>, rest |-> s]
              ELSE GetSchemeFrom(s, i + 1)
    ELSE IF s[i] = ":"
         THEN IF i = 1 THEN [err |-> TRUE, scheme |-> <<>>, rest |-> <<>>]
              ELSE [err |-> FALSE, scheme |-> SubSeq(s, 1, i - 1),
                    rest |-> SubSeq(s, i + 1, Len(s))]
    ELSE [err |-> FALSE, scheme |-> <<>>, rest |-> s]

\* the first path segment of s: up to the first "/"
RECURSIVE UpToSlash(_, _)
UpToSlash(s, i) ==
    IF i > Len(s) \/ s[i] = "/" THEN SubSeq(s, 1, i - 1) ELSE UpToSlash(s, i + 1)

HasColon(s) == \E i \in 1..Len(s) : s[i] = ":"

UrlParse(rawURL) ==
    LET g == GetSchemeFrom(rawURL, 1)
        scheme == ToLower(g.scheme)
        rest == g.rest
        bad == [err |-> TRUE, scheme |-> <<>>, host |-> <<>>]
    IN  IF g.err THEN bad
        ELSE IF ~HasPrefix(rest, <<"/">>)
             THEN IF scheme # <<>> THEN [err |-> FALSE, scheme |-> scheme, host |-> <<>>]
                  ELSE IF HasColon(UpToSlash(rest, 1)) THEN bad
                  ELSE [err |-> FALSE, scheme |-> <<>>, host |-> <<>>]
        ELSE IF HasPrefix(rest, <<"/", "/">>)
                /\ (scheme # <<>> \/ ~HasPrefix(rest, <<"/", "/", "/">>))
             THEN LET authority == UpToSlash(SubSeq(rest, 3, Len(rest)), 1)
                  IN  [err |-> FALSE, scheme |-> scheme, host |-> authority]
        ELSE [err |-> FALSE, scheme |-> scheme, host |-> <<>>]

(***************************************************************************)
(* fetch_url.  client.Do fails or answers with a status, a content type    *)
(* and a body; reading the body can fail.                                  *)
(***************************************************************************)
HtmlPage == "<p>hi</p><script>x</script>"
Page(ct, body) == [ct |-> ct, body |-> body]
Pages == {Page("text/plain", "body"), Page("text/html; charset=UTF-8", HtmlPage)}
BigHtmlPage == "<p>" \o Times("h", maxBytes) \o "</p>"
BigPages ==
    {Page("text/plain", Filler(maxBytes)), Page("text/plain", Filler(maxBytes + 1)),
     Page("text/plain", Filler(maxBytes + MaxExtraBytes)),
     Page("text/html; charset=UTF-8", BigHtmlPage)}

FetchEnvs(pace, pages) ==
    [do : {"ok", "error"}, status : {200, 404}, takes : pace, page : pages,
     read : {"ok", "error"}]

\* isHTMLContentType, on the content types of the model
isHTMLContentType(ct) == ct = "text/html; charset=UTF-8"

\* htmlToText, on the pages of the model: the text of the one paragraph
htmlToText(data) ==
    IF data = HtmlPage THEN "hi"
    ELSE IF Len(data) >= 3 /\ SubSeq(data, 1, 3) = "<p>"
         THEN LET closed == Len(data) >= 7
                            /\ SubSeq(data, Len(data) - 3, Len(data)) = "</p>"
              IN  SubSeq(data, 4, IF closed THEN Len(data) - 4 ELSE Len(data))
    ELSE data

\* io.ReadAll(io.LimitReader(body, n))
LimitReadShort(body, n) == SubSeq(body, 1, Min(Len(body), n - 1))
LimitRead(body, n) == SubSeq(body, 1, Min(Len(body), n))

S_http == <<"h", "t", "t", "p">>
S_https == <<"h", "t", "t", "p", "s">>

\* u.Scheme != "http" && u.Scheme != "https", negated
SupportedSchemeAny(scheme) == TRUE
SupportedScheme(scheme) == ~(scheme # S_http /\ scheme # S_https)

\* case "fetch_url"
RunFetchUrl(args, e, t0, c) ==
    LET urlStr == AsString(args.url)
        u == UrlParse(urlStr)
        fetchTimeout == ParseTimeout(args.timeout_sec, DefaultFetchTimeout)
        cctx == IF HasTimeout(fetchTimeout) THEN WithTimeout(c, t0, fetchTimeout) ELSE c
        get == TimedOp("GET", urlStr, IF HasTimeout(fetchTimeout) THEN fetchTimeout ELSE 0,
                       t0, DoneAt(cctx))
        all == LimitRead(e.page.body, maxBytes + 1)
        read == TimedOp("body", Len(all), get.limit, t0, DoneAt(cctx))
        truncated == Len(all) > maxBytes
        data == IF truncated THEN SubSeq(all, 1, maxBytes) ELSE all
        prefix == "status=" \o ToString(e.status) \o " content_type=\""
                  \o e.page.ct \o "\"\n"
        body == IF isHTMLContentType(e.page.ct) THEN htmlToText(data) ELSE data
    IN  IF urlStr = <<>> THEN At(Fail("missing required argument: url", <<>>), t0)
        ELSE IF u.err \/ u.scheme = <<>> \/ u.host = <<>>
             THEN At(Fail("invalid url", <<>>), t0)
        ELSE IF ~SupportedScheme(u.scheme)
             THEN At(Fail("unsupported url scheme: " \o Str(u.scheme), <<>>), t0)
        ELSE IF CutShort(cctx, t0, e.takes)
             THEN At(Fail("request failed: " \o CtxErr(cctx),
                          IF Begins(cctx, t0) THEN <<get>> ELSE <<>>),
                     Max(t0, DoneAt(cctx)))
        ELSE IF e.do # "ok"
             THEN At(Fail("request failed: EHOSTUNREACH", <<get>>), t0 + e.takes)
        ELSE IF e.read # "ok" THEN At(Fail("read body: EIO", <<get>>), t0 + e.takes)
        ELSE At(Ok(prefix \o body
                   \o (IF truncated THEN "\n... truncated due to 32KB limit ..." ELSE ""),
                   <<get, read>>),
                t0 + e.takes)

(***************************************************************************)
(* ToolCall.Run: dispatch on the tool name.  Outcomes(t, r, w, t0, c) is   *)
(* what Run can return, and when, for the call t begun at time t0 under    *)
(* the context c in the working directory r, over everything the           *)
(* environment w can answer.                                               *)
(***************************************************************************)
\* name := t.Function.Name
FunctionNameFold(t) == IF t.name = "Time_Now" THEN "time_now" ELSE t.name
FunctionName(t) == t.name

Outcomes(t, r, w, t0, c) ==
    LET name == FunctionName(t)
    IN  CASE name = "time_now" -> {At(Ok(Now, <<>>), t0)}
          [] name = "read_file" ->
                 {At(RunReadFile(t.args, r, e), t0) : e \in FileEnvsIn(w.growth, w.links)}
          [] name = "list_files" ->
                 {At(RunListFiles(t.args, r, e), t0) : e \in DirEnvsIn(w.disk, w.links)}
          [] name = "run_shell" -> {RunShell(t.args, e, t0, c) : e \in ShellEnvs(w.pace, w.texts)}
          [] name = "fetch_url" -> {RunFetchUrl(t.args, e, t0, c) : e \in FetchEnvs(w.pace, w.pages)}
          [] OTHER -> {At(Fail("unknown tool: " \o name, <<>>), t0)}

(***************************************************************************)
(* Messages, the tool catalog and the provider wire contract.              *)
(***************************************************************************)
\* UserMessage{Role, Content, ToolCallID, Name}
UserMessage(role, content, id, name) ==
    [role |-> role, content |-> content, toolCallId |-> id, name |-> name]

\* getToolsDefinition: name and required arguments of each schema, in order
getToolsDefinition ==
    << [name |-> "time_now", required |-> <<>>],
       [name |-> "read_file", required |-> <<"path">>],
       [name |-> "list_files", required |-> <<"path">>],
       [name |-> "edit_file", required |-> <<"path", "content">>],
       [name |-> "run_shell", required |-> <<"command">>],
       [name |-> "fetch_url", required |-> <<"url">>] >>

\* ProviderRequest{Stream: false, Messages: messages, Tools: tools}
ProviderRequestNoTools(msgs) ==
    [model |-> "", messages |-> msgs, tools |-> <<>>, stream |-> FALSE]
ProviderRequest(msgs) ==
    [model |-> "", messages |-> msgs, tools |-> getToolsDefinition, stream |-> FALSE]

NoRequest == ProviderRequest(<<>>)

\* ProviderResponse: Message{Role, Content, ToolCalls} and Done
ProviderResponse(role, content, calls, done) ==
    [role |-> role, content |-> content, toolCalls |-> calls, done |-> done]

NoResponse == ProviderResponse("", "", <<>>, FALSE)

(***************************************************************************)
(* Ollama.sendChatRequest.  The environment decides whether marshalling,   *)
(* building the request, the exchange and reading the body succeed, the    *)
(* status code, and whether the body decodes (and to which reply).         *)
(* sent counts the request/response exchanges performed.                   *)
(***************************************************************************)
\* resp.StatusCode != http.StatusOK, negated
StatusAcceptedAny(status) == TRUE
StatusAccepted(status) == ~(status # StatusOK)

sendChatRequest(c, reqBody, e, t0, d) ==
    LET fail(text, n, t) ==
            [err |-> TRUE, error |-> text, resp |-> NoResponse, sent |-> n, at |-> t]
    IN  IF e.marshal # "ok" THEN fail("marshal request: error", 0, t0)
        ELSE IF e.create # "ok" THEN fail("create request: error", 0, t0)
        ELSE IF CutShort(c, t0, d)
             THEN fail("request ollama: " \o CtxErr(c), 1, Max(t0, DoneAt(c)))
        ELSE IF e.do # "ok" THEN fail("request ollama: error", 1, t0 + d)
        ELSE IF e.read # "ok" THEN fail("read response: error", 1, t0 + d)
        ELSE IF ~StatusAccepted(e.status)
             THEN fail("ollama error: status " \o ToString(e.status)
                       \o ", body: " \o e.body, 1, t0 + d)
        ELSE IF e.decode # "ok"
             THEN fail("decode response: error; body: " \o e.body, 1, t0 + d)
        ELSE [err |-> FALSE, error |-> "", resp |-> e.reply, sent |-> 1, at |-> t0 + d]

\* the exchange that yields a given reply
Answers(reply) ==
    [marshal |-> "ok", create |-> "ok", do |-> "ok", read |-> "ok",
     status |-> StatusOK, decode |-> "ok", body |-> "{...}", reply |-> reply]

\* the exchanges that fail, one cause each
Failures ==
    { [Answers(NoResponse) EXCEPT !.marshal = "error"],
      [Answers(NoResponse) EXCEPT !.create = "error"],
      [Answers(NoResponse) EXCEPT !.do = "error"],
      [Answers(NoResponse) EXCEPT !.read = "error"],
      [Answers(NoResponse) EXCEPT !.status = 500, !.body = "oops"],
      [Answers(NoResponse) EXCEPT !.status = 404, !.body = "not found"],
      [Answers(NoResponse) EXCEPT !.status = 201, !.body = "{}"],
      [Answers(NoResponse) EXCEPT !.decode = "error", !.body = "<html>"] }

(***************************************************************************)
(* Inputs of the orchestration loop.                                       *)
(***************************************************************************)
UserInputs == {"what time is it?"}

PathArg(p) == [NoArgs EXCEPT !.path = StrVal(p)]

\* tool calls a reply can list: one that succeeds, one that fails and repeats
\* the id of the first, one for an advertised tool with the id omitted
LoopCalls ==
    { Call("a", "time_now", NoArgs),
      Call("a", "read_file", NoArgs),
      Call("", "edit_file", PathArg(<<"a">>)) }

CallSeqs(n, menu) == UNION {[1..k -> menu] : k \in 1..n}

\* replies without tool calls: final text, done without text, neither
PlainReplies ==
    { ProviderResponse("assistant", "It is noon.", <<>>, TRUE),
      ProviderResponse("assistant", "It is noon.", <<>>, FALSE),
      ProviderResponse("assistant", "", <<>>, TRUE),
      ProviderResponse("assistant", "", <<>>, FALSE) }


\* replies with at most n tool calls; those that start with a call without
\* id also carry text and done=true
ToolReplies(n, menu) ==
    { IF cs[1].id = ""
      THEN ProviderResponse("assistant", "Let me check.", cs, TRUE)
      ELSE ProviderResponse("assistant", "", cs, FALSE) : cs \in CallSeqs(n, menu) }

\* what the provider can answer while it may still request b tool calls
ProviderEnvs(b, menu) ==
    Failures \cup {Answers(r) : r \in PlainReplies}
             \cup {Answers(r) : r \in ToolReplies(Min(MaxCalls, b), menu)}

(***************************************************************************)
(* Results of runInference: (UserMessage, error).                          *)
(***************************************************************************)
NoMessage == UserMessage("", "", "", "")
Returned(msg) == [err |-> FALSE, error |-> "", msg |-> msg]
Failed(text) == [err |-> TRUE, error |-> text, msg |-> NoMessage]
Pending == [err |-> FALSE, error |-> "pending", msg |-> NoMessage]

ErrMaxSteps == "max tool-calling steps exceeded"
ErrEmpty == "conversations must not be empty"

\* len(conversations) == 0
NoConversationNever(c) == FALSE
NoConversation(c) == Len(c) = 0

\* for step := 0; step < maxSteps; step++
LoopContinuesOneMore(s) == s <= maxSteps
LoopContinues(s) == s < maxSteps

\* len(chatResp.Message.ToolCalls) > 0
HasToolCallsSilent(resp) == Len(resp.toolCalls) > 0 /\ resp.content = ""
HasToolCalls(resp) == Len(resp.toolCalls) > 0

\* if err != nil { return UserMessage{}, err }
ProviderFailedIgnored(r) == FALSE
ProviderFailed(r) == r.err

\* if chatResp.Done
RespDoneAlways(resp) == TRUE
RespDone(resp) == resp.done

\* what kind of reply an exchange produced
ReplyKind(r) ==
    IF r.err THEN "error"
    ELSE IF Len(r.resp.toolCalls) > 0 THEN "tools"
    ELSE IF r.resp.content # "" THEN "final"
    ELSE IF r.resp.done THEN "done"
    ELSE "empty"

\* runTools: the assistant message appended before the calls run
AssistantMessageNoContent(resp) == UserMessage(resp.role, "", "", "")
AssistantMessage(resp) == UserMessage(resp.role, resp.content, "", "")

\* runTools: result, or "tool error: " and the error
ToolContentRaw(res) == res.out
ToolContent(res) == IF res.err THEN "tool error: " \o res.out ELSE res.out

\* runTools: the tool-result message of one call
ToolMessageNameAsId(t, res) == UserMessage("tool", ToolContent(res), t.name, t.name)
ToolMessage(t, res) == UserMessage("tool", ToolContent(res), t.id, t.name)

\* runTools: the call the range loop runs at position k
CallAtReversed(resp, k) == resp.toolCalls[Len(resp.toolCalls) + 1 - k]
CallAt(resp, k) == resp.toolCalls[k]

\* runInference: the final assistant message
FinalMessageEmpty(resp) == UserMessage(resp.role, "", "", "")
FinalMessage(resp) == UserMessage(resp.role, resp.content, "", "")

\* runInference: done without content
DoneMessageZero == UserMessage("", "", "", "")
DoneMessage == UserMessage("assistant", "", "", "")

(***************************************************************************)
(* One invocation of runInference: it is called with a conversation (none, *)
(* the first user message, or a user message after an earlier exchange).   *)
(***************************************************************************)
LoopRoot == <<"/", "a">>

Conversations ==
    { <<>> } \cup
    { <<UserMessage("user", m, "", "")>> : m \in UserInputs } \cup
    { <<UserMessage("user", m, "", ""), UserMessage("assistant", "It is noon.", "", ""),
        UserMessage("user", m, "", "")>> : m \in UserInputs }

\* what the environment may do
World(disk, pace, menu) ==
    [disk |-> disk, pace |-> pace, menu |-> menu, texts |-> Texts, pages |-> Pages,
     growth |-> Still, links |-> NoLinks]

\* the locals of runInference and runTools before a run
Idle ==
    /\ messages = <<>>
    /\ step = 0
    /\ chatResp = NoResponse
    /\ result = Pending
    /\ tcIdx = 0
    /\ tc = NoCall
    /\ toolRes = NoResult
    /\ ioLog = <<>>
    /\ started = <<>>
    /\ inflight = 0
    /\ nreq = 0
    /\ lastReq = NoRequest
    /\ replyLog = <<>>
    /\ batches = <<>>

Init ==
    /\ pc = "called"
    /\ root = LoopRoot
    /\ conversations \in Conversations
    /\ turns = (Len(conversations) + 1) \div 2
    /\ budget = MaxTotalCalls
    /\ world = World(Trees, {0}, LoopCalls)
    /\ now = 0
    /\ ctx = Background
    /\ Idle

\* the end of one loop iteration: step++ and the loop condition
NextIteration ==
    /\ step' = step + 1
    /\ IF LoopContinues(step + 1)
       THEN pc' = "request" /\ result' = result
       ELSE pc' = "failed" /\ result' = Failed(ErrMaxSteps)

\* Agent.Run: read a user message, append it, call runInference
ReadMessage ==
    /\ pc = "idle"
    /\ turns < MaxTurns
    /\ \E m \in UserInputs :
        conversations' = Append(conversations, UserMessage("user", m, "", ""))
    /\ turns' = turns + 1
    /\ pc' = "called"
    /\ UNCHANGED <<root, messages, step, chatResp, result, tcIdx, tc, toolRes,
                   ioLog, started, inflight, nreq, lastReq, replyLog, batches,
                   budget>>
    /\ UNCHANGED <<world, now, ctx>>

\* runInference: the entry, up to the loop
CallRunInference ==
    /\ pc = "called"
    /\ IF NoConversation(conversations)
       THEN /\ result' = Failed(ErrEmpty)
            /\ pc' = "failed"
            /\ messages' = messages
       ELSE /\ result' = result
            /\ pc' = "request"
            /\ messages' = conversations
    /\ step' = 0
    /\ UNCHANGED <<root, conversations, turns, chatResp, tcIdx, tc, toolRes, ioLog,
                   started, inflight, nreq, lastReq, replyLog, batches, budget>>
    /\ ctx' = IF ctx.deadline = None THEN WithTimeout(ctx, now, runTimeout) ELSE ctx
    /\ UNCHANGED <<world, now>>

\* Agent.Run: the user closed the input
EndOfInput ==
    /\ pc = "idle"
    /\ pc' = "exit"
    /\ UNCHANGED <<root, conversations, turns, messages, step, chatResp, result,
                   tcIdx, tc, toolRes, ioLog, started, inflight, nreq, lastReq,
                   replyLog, batches, budget>>
    /\ UNCHANGED <<world, now, ctx>>

\* runInference: one provider.sendChatRequest and the branch on its reply
SendChatRequest ==
    /\ pc = "request"
    /\ \E e \in ProviderEnvs(budget, world.menu), d \in world.pace :
        LET reqBody == ProviderRequest(messages)
            r == sendChatRequest(ctx, reqBody, e, now, d)
        IN  /\ nreq' = nreq + r.sent
            /\ now' = r.at
            /\ lastReq' = reqBody
            /\ chatResp' = r.resp
            /\ started' = <<>>
            /\ replyLog' = Append(replyLog, ReplyKind(r))
            /\ budget' = budget - Len(r.resp.toolCalls)
            /\ IF ProviderFailed(r)
               THEN /\ result' = Failed(r.error)
                    /\ pc' = "failed"
                    /\ UNCHANGED <<messages, step, tcIdx, batches>>
               ELSE IF HasToolCalls(r.resp)
               THEN /\ messages' = Append(messages, AssistantMessage(r.resp))
                    /\ batches' = Append(batches, [at |-> Len(messages) + 1,
                                                   calls |-> r.resp.toolCalls])
                    /\ tcIdx' = 1
                    /\ pc' = "tool"
                    /\ UNCHANGED <<result, step>>
               ELSE IF r.resp.content # ""
               THEN /\ result' = Returned(FinalMessage(r.resp))
                    /\ pc' = "returned"
                    /\ UNCHANGED <<messages, step, tcIdx, batches>>
               ELSE IF RespDone(r.resp)
               THEN /\ result' = Returned(DoneMessage)
                    /\ pc' = "returned"
                    /\ UNCHANGED <<messages, step, tcIdx, batches>>
               ELSE /\ NextIteration
                    /\ UNCHANGED <<messages, tcIdx, batches>>
    /\ UNCHANGED <<root, conversations, turns, tc, toolRes, ioLog, inflight>>
    /\ UNCHANGED <<world, ctx>>

\* runTools: tc.Run is called for the next call of the reply
ToolStart ==
    /\ pc = "tool"
    /\ tc' = CallAt(chatResp, tcIdx)
    /\ started' = Append(started, tc')
    /\ inflight' = inflight + 1
    /\ pc' = "running"
    /\ UNCHANGED <<root, conversations, turns, messages, step, chatResp, result,
                   tcIdx, toolRes, ioLog, nreq, lastReq, replyLog, batches, budget>>
    /\ UNCHANGED <<world, now, ctx>>

\* runTools: tc.Run returns, its result is appended; after the last call the
\* loop of runInference goes on
ToolReturn ==
    /\ pc = "running"
    /\ \E o \in Outcomes(tc, root, world, now, ctx) :
        /\ toolRes' = o.res
        /\ ioLog' = o.res.io
        /\ messages' = Append(messages, ToolMessage(tc, o.res))
        /\ now' = o.at
    /\ inflight' = inflight - 1
    /\ IF tcIdx < Len(chatResp.toolCalls)
       THEN /\ tcIdx' = tcIdx + 1
            /\ pc' = "tool"
            /\ UNCHANGED <<step, result>>
       ELSE /\ tcIdx' = tcIdx
            /\ NextIteration
    /\ UNCHANGED <<root, conversations, turns, chatResp, tc, started, nreq,
                   lastReq, replyLog, batches, budget>>
    /\ UNCHANGED <<world, ctx>>

\* conversations = append(conversations, reply): the messages of the run are
\* not kept
KeptHistory(convs, msgs, reply) == Append(msgs, reply)
KeptConversation(convs, msgs, reply) == Append(convs, reply)

\* Agent.Run: append the reply and write it to the user; the locals of the
\* finished runInference are gone
WriteReply ==
    /\ pc = "returned"
    /\ conversations' = KeptConversation(conversations, messages, result.msg)
    /\ pc' = "idle"
    /\ messages' = <<>>
    /\ step' = 0
    /\ chatResp' = NoResponse
    /\ result' = Pending
    /\ tcIdx' = 0
    /\ tc' = NoCall
    /\ toolRes' = NoResult
    /\ ioLog' = <<>>
    /\ started' = <<>>
    /\ nreq' = 0
    /\ lastReq' = NoRequest
    /\ replyLog' = <<>>
    /\ batches' = <<>>
    /\ UNCHANGED <<root, turns, inflight, budget>>
    /\ ctx' = [ctx EXCEPT !.deadline = ctx.parent]
    /\ UNCHANGED <<world, now>>

Next ==
    \/ CallRunInference
    \/ SendChatRequest
    \/ ToolStart
    \/ ToolReturn

Spec == Init /\ [][Next]_vars

\* every provider call and every tool invocation returns: a step that can be
\* taken is taken
NoFairness == TRUE
Fairness == WF_vars(Next)

\* a provider that asks for a tool that succeeds or for one that fails
LiveCalls == {Call("a", "time_now", NoArgs), Call("b", "read_file", NoArgs)}

InitLive ==
    /\ pc = "called"
    /\ root = LoopRoot
    /\ conversations \in Conversations
    /\ turns = (Len(conversations) + 1) \div 2
    /\ budget = MaxTotalCalls
    /\ world = World(Trees, {0}, LiveCalls)
    /\ now = 0
    /\ ctx = Background
    /\ Idle

SpecLive == InitLive /\ [][Next]_vars /\ Fairness

(***************************************************************************)
(* Agent.Run: the turns of one session.                                    *)
(***************************************************************************)
InitRun ==
    /\ pc = "idle"
    /\ root = LoopRoot
    /\ conversations = <<>>
    /\ turns = 0
    /\ budget = MaxSessionCalls
    /\ world = World(Trees, {0}, LoopCalls)
    /\ now = 0
    /\ ctx = Background
    /\ Idle

NextRun ==
    \/ ReadMessage
    \/ EndOfInput
    \/ CallRunInference
    \/ SendChatRequest
    \/ ToolStart
    \/ ToolReturn
    \/ WriteReply

SpecRun == InitRun /\ [][NextRun]_vars

(***************************************************************************)
(* One invocation of runInference with a running clock: exchanges and      *)
(* commands take time, the caller may impose a deadline or cancel, and     *)
(* the provider asks for commands and fetches.                             *)
(***************************************************************************)
TimedPace == {0, ShortRun, LongRun}

Ls == <<"l", "s">>
UrlH == <<"h", "t", "t", "p", ":", "/", "/", "h">>

TimedCalls ==
    { Call("a", "run_shell", NoArgs),
      Call("a", "run_shell", [NoArgs EXCEPT !.command = StrVal(Ls)]),
      Call("a", "run_shell", [NoArgs EXCEPT !.command = StrVal(Ls),
                                            !.timeout_sec = NumVal(10)]),
      Call("a", "fetch_url", [NoArgs EXCEPT !.url = StrVal(UrlH)]) }

CallerCtxs ==
    { Background, Context(CallerDeadline, None), Context(None, CancelTime) }

InitTime ==
    /\ pc = "called"
    /\ root = LoopRoot
    /\ conversations \in {c \in Conversations : Len(c) = 1}
    /\ turns = 1
    /\ budget = MaxTimedCalls
    /\ world = World(Trees, TimedPace, TimedCalls)
    /\ now = 0
    /\ ctx \in CallerCtxs
    /\ Idle

SpecTime == InitTime /\ [][Next]_vars

(***************************************************************************)
(* The tool executor on its own: runInference has just received, as the    *)
(* reply of its first or of its last step, a batch whose first call is     *)
(* drawn from a wide set of tool calls (every earlier reply of the run     *)
(* was empty, so the history is still the user's message).                 *)
(***************************************************************************)
PathChars == {"/", ".", "a"}
PathStrings == UNION {[1..n -> PathChars] : n \in 0..MaxPathLen}
Roots == {<<"/">>, <<"/", "a">>}

PathValues == {Absent, NumVal(10), BoolVal(TRUE)} \cup {StrVal(p) : p \in PathStrings}

UrlStrings ==
    { <<>>,
      <<"h", "t", "t", "p", ":", "/", "/", "h">>,
      <<"h", "t", "t", "p", "s", ":", "/", "/", "h", "/", "p">>,
      <<"H", "T", "T", "P", ":", "/", "/", "h">>,
      <<"f", "t", "p", ":", "/", "/", "x">>,
      <<"j", "a", "v", "a", "s", "c", "r", "i", "p", "t", ":", "x">>,
      <<"h", "t", "t", "p", ":", "/", "/">>,
      <<"h", "t", "t", "p", ":", "h">>,
      <<"h", "/", "p">>,
      <<"/", "/", "h", "/", "p">>,
      <<"/", "p">>,
      <<":", "/", "/", "h">>,
      <<"1", "h", ":", "/", "/", "h">> }

Contents == {<<>>, <<"x">>}
Commands == {<<>>, <<"l", "s">>}
TimeoutValues == {Absent, NumVal(10), NumVal(5), NumVal(0), NumVal(-10), StrVal(<<"1">>)}

ToolInputs ==
    { Call("a", n, [NoArgs EXCEPT !.path = v]) :
        n \in {"read_file", "list_files", "edit_file"}, v \in PathValues }
    \cup { Call("a", "edit_file", [NoArgs EXCEPT !.path = v, !.content = StrVal(c)]) :
             v \in PathValues, c \in Contents }
    \cup { Call("a", "run_shell", [NoArgs EXCEPT !.command = c, !.timeout_sec = v]) :
             c \in {Absent, NumVal(10)} \cup {StrVal(x) : x \in Commands},
             v \in TimeoutValues }
    \cup { Call("a", "fetch_url", [NoArgs EXCEPT !.url = u, !.timeout_sec = v]) :
             u \in {Absent, BoolVal(FALSE)} \cup {StrVal(x) : x \in UrlStrings},
             v \in TimeoutValues }
    \cup { Call("a", n, NoArgs) : n \in {"time_now", "Time_Now", "", "delete_file"} }

RECURSIVE Repeat(_, _)
Repeat(x, n) == IF n = 0 THEN <<>> ELSE <<x>> \o Repeat(x, n - 1)

\* runInference at runTools, with the batch calls received at step s and at
\* time t, under the context c
AtToolsUnder(calls, r, s, m, w, t, c) ==
    LET user == UserMessage("user", m, "", "")
        resp == ProviderResponse("assistant", "", calls, FALSE)
    IN  /\ pc = "tool"
        /\ root = r
        /\ conversations = <<user>>
        /\ turns = 1
        /\ messages = <<user, AssistantMessage(resp)>>
        /\ step = s
        /\ chatResp = resp
        /\ result = Pending
        /\ tcIdx = 1
        /\ tc = NoCall
        /\ toolRes = NoResult
        /\ ioLog = <<>>
        /\ started = <<>>
        /\ inflight = 0
        /\ nreq = s + 1
        /\ lastReq = ProviderRequest(<<user>>)
        /\ replyLog = Repeat("empty", s) \o <<"tools">>
        /\ batches = <<[at |-> 2, calls |-> calls]>>
        /\ budget = 0
        /\ world = w
        /\ now = t
        /\ ctx = c

\* the same at time 0 in a run called without a deadline
AtTools(calls, r, s, m, w) ==
    AtToolsUnder(calls, r, s, m, w, 0, WithTimeout(Background, 0, runTimeout))

InitTool ==
    \E t \in ToolInputs, r \in Roots, s \in {0, maxSteps - 1}, m \in UserInputs :
    \E calls \in {<<t>>, <<t, Call("b", "time_now", NoArgs)>>} :
        AtTools(calls, r, s, m, World(Trees, {0}, {}))

NextTool ==
    \/ ToolStart
    \/ ToolReturn

SpecTool == InitTool /\ [][NextTool]_vars

(***************************************************************************)
(* list_files over directories large enough to meet the entry cap and the  *)
(* output cap.                                                             *)
(***************************************************************************)
\* names of the greatest length most file systems allow
LongStem == Times("x", 250)
LongDir == Times("d", 255)
LongChain == [i \in 1..14 |-> LongDir]

Listings ==
    { <<Group(<<>>, "f", MaxOver, FALSE)>>,
      <<Group(<<>>, "f", maxEntries + MaxOver, FALSE)>>,
      <<Group(<<"a">>, "f", maxEntries, FALSE), Group(<<"b">>, "f", MaxOver, FALSE)>>,
      <<Group(LongChain, LongStem, MaxLongFiles, FALSE)>> }

ListPaths == UNION {[1..n -> {".", "a"}] : n \in 1..MaxListPathLen}

InitList ==
    \E p \in ListPaths, r \in Roots, s \in {0, maxSteps - 1}, m \in UserInputs :
    \E calls \in {<<Call("a", "list_files", [NoArgs EXCEPT !.path = StrVal(p)])>>} :
        AtTools(calls, r, s, m, World(Listings, {0}, {}))

SpecList == InitList /\ [][NextTool]_vars

(***************************************************************************)
(* run_shell and fetch_url on commands that write, and servers that send,  *)
(* about as much as the caps of the two tools.                             *)
(***************************************************************************)
BigCalls ==
    { Call("a", "run_shell", [NoArgs EXCEPT !.command = StrVal(Ls), !.timeout_sec = v]) :
        v \in {Absent, NumVal(10)} }
    \cup { Call("a", "fetch_url", [NoArgs EXCEPT !.url = StrVal(UrlH), !.timeout_sec = v]) :
              v \in {Absent, NumVal(10)} }

BigWorld ==
    [World(Trees, {0}, {}) EXCEPT !.texts = Texts \cup BigTexts,
                                  !.pages = Pages \cup BigPages]

InitBig ==
    \E t \in BigCalls, r \in Roots, s \in {0, maxSteps - 1}, m \in UserInputs :
        AtTools(<<t>>, r, s, m, BigWorld)

SpecBig == InitBig /\ [][NextTool]_vars

(***************************************************************************)
(* read_file and list_files on a file system that holds symbolic links and *)
(* that other processes write to while the tool runs.                      *)
(***************************************************************************)
FsPaths == UNION {[1..n -> PathChars] : n \in 1..MaxFsPathLen}

FsWorld == [World(Trees, {0}, {}) EXCEPT !.growth = Growths, !.links = Links]

InitFs ==
    \E n \in {"read_file", "list_files"}, p \in FsPaths, r \in Roots,
       s \in {0, maxSteps - 1}, m \in UserInputs :
        AtTools(<<Call("a", n, [NoArgs EXCEPT !.path = StrVal(p)])>>, r, s, m, FsWorld)

SpecFs == InitFs /\ [][NextTool]_vars

(***************************************************************************)
(* Batches of two calls on a running clock: the deadline of the run or the *)
(* caller's cancellation can fall into the first call, and the provider    *)
(* is asked again after the batch.                                         *)
(***************************************************************************)
StartTimes == {0, LateStart, 2 * LateStart}

\* the context of a run called at time 0 under the caller's context c
RunCtx(c) == IF c.deadline = None THEN WithTimeout(c, 0, runTimeout) ELSE c

InitCancel ==
    \E t1 \in TimedCalls, t2 \in TimedCalls, s \in {maxSteps - 2, maxSteps - 1},
       m \in UserInputs,
       t \in StartTimes, c \in CallerCtxs :
        /\ ~IsDone(RunCtx(c), t)
        /\ AtToolsUnder(<<t1, [t2 EXCEPT !.id = "b"]>>, LoopRoot, s, m,
                        World(Trees, TimedPace, {}), t, RunCtx(c))

NextCancel ==
    \/ SendChatRequest
    \/ ToolStart
    \/ ToolReturn

SpecCancel == InitCancel /\ [][NextCancel]_vars

(***************************************************************************)
(* Properties.                                                             *)
(***************************************************************************)
Last(q) == q[Len(q)]

\* the run is between steps or over, and the last reply was of the given kind
AfterReply(kind) ==
    /\ replyLog # <<>>
    /\ Last(replyLog) = kind
    /\ pc \notin {"tool", "running"}

\* C1: a run issues at most 5 provider requests; when each of the first 5
\* replies lists tool calls, the run fails with the step-exceeded error after
\* exactly 5 requests.
C1_StepBound ==
    /\ nreq <= 5
    /\ Len(replyLog) <= 5
    /\ (replyLog = <<"tools", "tools", "tools", "tools", "tools">>
        /\ pc \notin {"tool", "running"})
       => /\ pc = "failed"
          /\ result = Failed(ErrMaxSteps)
          /\ nreq = 5
    /\ (result.err /\ result.error = ErrMaxSteps) => (nreq = 5 /\ pc = "failed")

C1_Witness ==
    /\ pc = "failed"
    /\ result = Failed(ErrMaxSteps)
    /\ replyLog = <<"tools", "tools", "tools", "tools", "tools">>
    /\ nreq = 5

\* the path resolved for argument p lies outside the directory r
Outside(r, p) ==
    LET want == Components(r)
        have == Components(Join(r, Clean(p)))
    IN  ~(Len(have) >= Len(want) /\ SubSeq(have, 1, Len(want)) = want)

\* a tc.Run has returned and toolRes, ioLog are what it returned and did
Ran == tc # NoCall /\ inflight = 0

\* C2: for a path argument that resolves outside the root, read_file,
\* list_files and edit_file each fail with the confinement violation and
\* perform no file operation.
C2_Confinement ==
    (/\ Ran
     /\ tc.name \in {"read_file", "list_files", "edit_file"}
     /\ Outside(root, AsString(tc.args.path))
     /\ toolRes.out # "getwd: error")
    => /\ toolRes.err
       /\ toolRes.out = ErrOutside
       /\ ioLog = <<>>

\* the same for the two tools the executor implements
C2_ReadAndList ==
    (/\ Ran
     /\ tc.name \in {"read_file", "list_files"}
     /\ Outside(root, AsString(tc.args.path))
     /\ toolRes.out # "getwd: error")
    => /\ toolRes.err
       /\ toolRes.out = ErrOutside
       /\ ioLog = <<>>

\* the tool-result messages appended for the current batch
BatchResults == SubSeq(messages, Last(batches).at + 1, Len(messages))

\* C3: the executor is invoked once per listed call, in the listed order and
\* one at a time: the calls begun so far are a prefix of the reply's list, a
\* call begins only when all earlier ones have returned and appended their
\* result, and when the batch is over every call has run, also after a failure.
C3_Sequential ==
    /\ inflight \in {0, 1}
    /\ inflight = 1 <=> pc = "running"
    /\ Len(started) <= Len(chatResp.toolCalls)
    /\ started = SubSeq(chatResp.toolCalls, 1, Len(started))
    /\ pc = "running" => (tc = Last(started) /\ Len(BatchResults) = Len(started) - 1)
    /\ pc = "tool" => (tcIdx = Len(started) + 1 /\ Len(BatchResults) = Len(started))
    /\ AfterReply("tools") => (started = chatResp.toolCalls
                               /\ Len(BatchResults) = Len(started))

C3_Witness ==
    /\ AfterReply("tools")
    /\ Len(started) = 2
    /\ started[1] # started[2]
    /\ BatchResults[1].content = "tool error: missing required argument: path"
    /\ BatchResults[2].content = Now

ToolErrorPrefix == "tool error: "

IsToolError(m) ==
    /\ Len(m.content) >= Len(ToolErrorPrefix)
    /\ SubSeq(m.content, 1, Len(ToolErrorPrefix)) = ToolErrorPrefix

\* a failure of the last call is recorded as its tool-result message, and
\* when a batch with a failed call is over, every call of it has run
FailureRecorded ==
    /\ (Ran /\ toolRes.err)
       => Last(messages) = UserMessage("tool", ToolErrorPrefix \o toolRes.out,
                                       tc.id, tc.name)
    /\ (Ran /\ toolRes.err /\ tcIdx < Len(chatResp.toolCalls)) => pc = "tool"
    /\ (AfterReply("tools") /\ \E i \in DOMAIN BatchResults : IsToolError(BatchResults[i]))
       => /\ started = chatResp.toolCalls
          /\ Len(BatchResults) = Len(chatResp.toolCalls)

BatchFailed ==
    AfterReply("tools") /\ \E i \in DOMAIN BatchResults : IsToolError(BatchResults[i])

\* C4 as stated: every tool failure becomes a "tool error: " tool-result
\* message, the remaining calls run, and the run then proceeds to the next
\* provider request without returning an error.
C4_AlwaysNextRequest ==
    /\ FailureRecorded
    /\ BatchFailed => (pc = "request" /\ result = Pending)

\* C4, amended: every tool failure becomes a "tool error: " tool-result
\* message and the remaining calls run; the run then proceeds to the next
\* provider request, or, when the batch answered the 5th reply, fails with
\* the step-exceeded error.  It never returns the error of a tool.
C4_ToolFailuresAreSoft ==
    /\ FailureRecorded
    /\ BatchFailed =>
         \/ (Len(replyLog) < 5 /\ pc = "request" /\ result = Pending)
         \/ (Len(replyLog) = 5 /\ pc = "failed" /\ result = Failed(ErrMaxSteps))
    /\ result.err => result.error = ErrMaxSteps

C4_Witness ==
    /\ BatchFailed
    /\ pc = "request"
    /\ Len(BatchResults) = 2
    /\ BatchResults[1].content = ToolErrorPrefix \o ErrOutside
    /\ BatchResults[2].content = Now

\* the errors Ollama.sendChatRequest can return
ProviderErrors == {sendChatRequest(Background, lastReq, e, 0, 0).error : e \in Failures}

\* C5: when the provider call fails, the run returns that error at once: no
\* assistant reply, no tool run and no provider request after the failure.
C5_ProviderFailureAborts ==
    (replyLog # <<>> /\ Last(replyLog) = "error")
    => /\ pc = "failed"
       /\ result.err
       /\ result.error \in ProviderErrors
       /\ result.msg = NoMessage
       /\ started = <<>>
       /\ inflight = 0
       /\ nreq <= Len(replyLog)

C5_Witness ==
    /\ pc = "failed"
    /\ replyLog = <<"tools", "error">>
    /\ result.error = "ollama error: status 500, body: oops"
    /\ nreq = 2

\* C6: a reply without tool calls and with text ends the run at that step
\* with exactly that text; no tool runs and no request follows.
C6_FinalText ==
    (replyLog # <<>> /\ Len(chatResp.toolCalls) = 0 /\ chatResp.content # "")
    => /\ pc = "returned"
       /\ ~result.err
       /\ result.msg.content = chatResp.content
       /\ result.msg.role = chatResp.role
       /\ started = <<>>
       /\ inflight = 0
       /\ nreq = Len(replyLog)
       /\ step = Len(replyLog) - 1

C6_Witness ==
    /\ pc = "returned"
    /\ replyLog = <<"tools", "final">>
    /\ result.msg.content = "It is noon."

\* C7: a reply with done=true, no text and no tool calls ends the run at that
\* step with an empty message of role "assistant"; no request follows.
C7_DoneEmpty ==
    (replyLog # <<>> /\ Len(chatResp.toolCalls) = 0 /\ chatResp.content = ""
     /\ chatResp.done)
    => /\ pc = "returned"
       /\ result = Returned(UserMessage("assistant", "", "", ""))
       /\ started = <<>>
       /\ nreq = Len(replyLog)
       /\ step = Len(replyLog) - 1

C7_Witness ==
    /\ pc = "returned"
    /\ replyLog = <<"empty", "done">>
    /\ result.msg.role = "assistant"
    /\ result.msg.content = ""

\* what a reply adds to the history: nothing when it lists no call, else one
\* assistant message and one tool-result message per call, in call order
Extends(before, after, resp) ==
    LET n == Len(resp.toolCalls)
        k == Len(before)
    IN  IF n = 0 THEN after = before
        ELSE /\ Len(after) = k + 1 + n
             /\ SubSeq(after, 1, k) = before
             /\ after[k + 1].role = resp.role
             /\ after[k + 1].content = resp.content
             /\ after[k + 1].toolCallId = ""
             /\ \A i \in 1..n :
                  /\ after[k + 1 + i].role = "tool"
                  /\ after[k + 1 + i].toolCallId = resp.toolCalls[i].id
                  /\ after[k + 1 + i].name = resp.toolCalls[i].name

\* the step issues a provider request
IssuesRequest == pc = "request" /\ lastReq' = ProviderRequest(messages)

TimeNowScenario ==
    /\ pc = "returned"
    /\ Len(conversations) = 1
    /\ replyLog = <<"tools", "final">>
    /\ chatResp.content = "It is noon."
    /\ Len(batches) = 1
    /\ batches[1].calls = <<Call("a", "time_now", NoArgs)>>

\* C8: the first request of a run carries the conversation, and every later
\* request carries the messages of the previous request, unchanged and in
\* order, followed by what the previous reply added: one assistant message
\* and one tool-result message per call in call order.  In the time_now
\* scenario the second request ends with the tool result and the run makes 2
\* provider calls.
C8_HistoryExtends ==
    /\ [][IssuesRequest =>
            IF replyLog = <<>> THEN lastReq'.messages = conversations
            ELSE Extends(lastReq.messages, lastReq'.messages, chatResp)]_vars
    /\ [](TimeNowScenario =>
            /\ nreq = 2
            /\ Len(lastReq.messages) = 3
            /\ lastReq.messages[1] = conversations[1]
            /\ lastReq.messages[3] = UserMessage("tool", Now, "a", "time_now")
            /\ result.msg.content = "It is noon.")

C8_Witness ==
    /\ TimeNowScenario
    /\ nreq = 2
    /\ lastReq.messages[3].content = Now

\* the batch whose assistant message is the nearest one before position i,
\* with only tool-result messages in between
BatchOf(i) ==
    { b \in DOMAIN batches :
        /\ batches[b].at < i
        /\ messages[batches[b].at].role = "assistant"
        /\ \A k \in (batches[b].at + 1)..i : messages[k].role = "tool" }

\* C9: every tool-result message of the history carries the id and the name
\* of a call listed in the reply recorded by the nearest preceding assistant
\* message, with only tool-result messages in between.
C9_ResultsMatchCalls ==
    \A i \in DOMAIN messages :
        messages[i].role = "tool"
        => \E b \in BatchOf(i) :
             \E c \in DOMAIN batches[b].calls :
                /\ messages[i].toolCallId = batches[b].calls[c].id
                /\ messages[i].name = batches[b].calls[c].name

C9_Witness ==
    /\ Len(batches) = 2
    /\ pc = "request"
    /\ messages[Len(messages)].role = "tool"
    /\ messages[Len(messages)].toolCallId = "a"
    /\ messages[Len(messages)].name = "read_file"

\* the tool-result messages of the current batch that carry the id
Lookup(id) == {i \in DOMAIN BatchResults : BatchResults[i].toolCallId = id}

\* C10 as stated: after a tool step, looking up the results of the batch by
\* the id of any of its calls yields exactly the result of that call.
C10_LookupById ==
    AfterReply("tools")
    => \A k \in DOMAIN chatResp.toolCalls : Lookup(chatResp.toolCalls[k].id) = {k}

(***************************************************************************)
(* list_files: the caps of the walk and of the output.                     *)
(***************************************************************************)
\* the number of newlines in s[lo..hi]
RECURSIVE Newlines(_, _, _)
Newlines(s, lo, hi) ==
    IF lo > hi THEN 0
    ELSE IF lo = hi THEN (IF SubSeq(s, lo, lo) = "\n" THEN 1 ELSE 0)
    ELSE LET mid == (lo + hi) \div 2
         IN  Newlines(s, lo, mid) + Newlines(s, mid + 1, hi)

HasSuffix(s, x) == Len(s) >= Len(x) /\ SubSeq(s, Len(s) - Len(x) + 1, Len(s)) = x

\* the number of paths in a listing
PathsIn(out) ==
    IF out = "" THEN 0
    ELSE Newlines(out, 1, Len(out)) + 1
         - (IF HasSuffix(out, TruncatedOutput) THEN 1 ELSE 0)

\* the number of files of a tree
RECURSIVE FilesIn(_)
FilesIn(tree) == IF tree = <<>> THEN 0 ELSE Head(tree).n + FilesIn(Tail(tree))

\* list_files has returned a listing
ListReturned == tc.name = "list_files" /\ inflight = 0 /\ ~toolRes.err

\* C11: a successful list_files returns at most 5000 file paths, whatever the
\* directory tree under the root: the walk stops at 5000 collected entries.
C11_AtMostMaxEntries == ListReturned => PathsIn(toolRes.out) <= maxEntries

\* C12: whenever list_files stops early at the entry cap or at the output
\* cap, so that its text leaves out files of the directory, the text ends
\* with a truncation notice.
C12_TruncationNotice ==
    pc = "running" /\ tc.name = "list_files" =>
        \A e \in DirEnvs(world.disk) :
            LET res == RunListFiles(tc.args, root, e)
            IN  ~res.err /\ PathsIn(res.out) < FilesIn(e.tree)
                    => HasSuffix(res.out, TruncatedOutput)

\* a listing cut at the output cap does end with the notice
C12_OutputCapNotice ==
    ListReturned /\ Len(toolRes.out) > maxOutputBytes
        => HasSuffix(toolRes.out, TruncatedOutput)

(***************************************************************************)
(* read_file: the size cap.                                                *)
(***************************************************************************)
\* the operations of a result that read file content
Reads(res) == {i \in DOMAIN res.io : res.io[i].op = "read"}

\* read_file gets as far as the size check: the path is given, it passes the
\* confinement check and it names a file
ReachesFile(t, r, e) ==
    /\ t.args.path.t = "string"
    /\ t.args.path.s # <<>>
    /\ e.getwd = "ok"
    /\ WithinRoot(Join(r, Clean(t.args.path.s)), r)
    /\ e.stat = "file"

\* C13: a file larger than 1 MiB makes read_file fail with the size-limit
\* error without reading any content; a file of 1 MiB or less is read in full.
C13_SizeLimit ==
    pc = "running" /\ tc.name = "read_file" =>
        \A e \in FileEnvs :
            LET res == RunReadFile(tc.args, root, e)
            IN  ReachesFile(tc, root, e) =>
                    /\ e.size > 1048576 =>
                           /\ res.err
                           /\ res.out = "file too large: " \o ToString(e.size)
                                            \o " bytes (limit 1048576)"
                           /\ Reads(res) = {}
                    /\ e.size <= 1048576 /\ e.read = "ok" =>
                           ~res.err /\ res.out = FileData(e.size)

\* read_file has refused a file of 1 MiB + 1 byte without reading it
C13_Witness ==
    /\ tc.name = "read_file"
    /\ inflight = 0
    /\ toolRes.err
    /\ toolRes.out = "file too large: 1048577 bytes (limit 1048576)"
    /\ ioLog # <<>>
    /\ \A i \in DOMAIN ioLog : ioLog[i].op # "read"

(***************************************************************************)
(* edit_file and the tool catalog.                                         *)
(***************************************************************************)
\* the names the catalog advertises
Advertised == {getToolsDefinition[i].name : i \in DOMAIN getToolsDefinition}

\* C14: edit_file with a non-empty path inside the root and a content
\* argument writes the file at the confined path and succeeds; no advertised
\* tool name is answered as an unknown tool.
C14_EditFileWrites ==
    /\ (/\ Ran
        /\ tc.name = "edit_file"
        /\ AsString(tc.args.path) # <<>>
        /\ ~Outside(root, AsString(tc.args.path))
        /\ tc.args.content.t = "string")
       => /\ ~toolRes.err
          /\ \E i \in DOMAIN ioLog :
                /\ ioLog[i].op = "write"
                /\ ioLog[i].target = Join(root, Clean(AsString(tc.args.path)))
    /\ Ran /\ tc.name \in Advertised => toolRes.out # "unknown tool: " \o tc.name

(***************************************************************************)
(* fetch_url: the schemes.                                                 *)
(***************************************************************************)
\* the scheme a url string names: what precedes its first colon, in lower
\* case; none without a colon
RECURSIVE BeforeColon(_, _)
BeforeColon(s, i) ==
    IF i > Len(s) THEN <<>>
    ELSE IF s[i] = ":" THEN ToLower(SubSeq(s, 1, i - 1))
    ELSE BeforeColon(s, i + 1)

\* the url argument is a string with scheme http or https
HttpUrl(v) == v.t = "string" /\ BeforeColon(v.s, 1) \in {S_http, S_https}

\* C15: fetch_url fails, and issues no network request, for every url
\* argument whose scheme is not http or https: another scheme, no scheme,
\* a relative or empty string, a value that is not a string.
C15_SchemeRejected ==
    Ran /\ tc.name = "fetch_url" /\ ~HttpUrl(tc.args.url)
        => toolRes.err /\ ioLog = <<>>

\* fetch_url has refused ftp://x without a request
C15_Witness ==
    /\ Ran
    /\ tc.name = "fetch_url"
    /\ tc.args.url = StrVal(<<"f", "t", "p", ":", "/", "/", "x">>)
    /\ toolRes.err
    /\ toolRes.out = "unsupported url scheme: ftp"
    /\ ioLog = <<>>

(***************************************************************************)
(* run_shell and fetch_url: exit codes and timeouts.                       *)
(***************************************************************************)
StartsWith(s, x) == Len(s) >= Len(x) /\ SubSeq(s, 1, Len(x)) = x

\* the exit code a result of run_shell reports is n
Reports(res, n) == ~res.err /\ StartsWith(res.out, "exit_code=" \o ToString(n) \o "\n")

\* C16: run_shell with a non-empty command never fails: a zero or non-zero
\* exit, a kill by a signal or by the timeout and a shell that cannot be
\* started all give a result that begins with exit_code=<n>, n the exit
\* code of a normal exit and -1 otherwise.  Without a command it fails.
C16_ShellNeverFails ==
    pc = "running" /\ tc.name = "run_shell" =>
        \A e \in ShellEnvs(world.pace, world.texts) :
            LET res == RunShell(tc.args, e, now, ctx).res
            IN  IF AsString(tc.args.command) = <<>>
                THEN res.err /\ res.out = "missing required argument: command"
                ELSE /\ \E n \in {-1, 0, 1} : Reports(res, n)
                     /\ e.how # "exit" => Reports(res, -1)
                     /\ e.how = "exit" /\ e.runs = 0 /\ ~IsDone(ctx, now)
                            => Reports(res, e.code)
                     /\ e.runs > 1 /\ tc.args.timeout_sec = NumVal(10)
                            => Reports(res, -1)

\* run_shell was killed at its timeout of one second and reported -1
C16_Witness ==
    /\ Ran
    /\ tc.name = "run_shell"
    /\ tc.args.timeout_sec = NumVal(10)
    /\ ioLog # <<>>
    /\ now = ioLog[1].until
    /\ now = ioLog[1].since + 1
    /\ toolRes = Ok("exit_code=-1\n", ioLog)

\* C17: run_shell with timeout_sec=1 on a command that runs for 5 seconds
\* returns when the second has elapsed, not when the command ends, with
\* exit_code=-1 and without the output of the command.
C17_TimeoutReturns ==
    (/\ pc = "running"
     /\ tc.name = "run_shell"
     /\ AsString(tc.args.command) # <<>>
     /\ tc.args.timeout_sec = NumVal(10)
     /\ ~CutShort(ctx, now, 1))
    => \A e \in ShellEnvs(world.pace, world.texts) :
           e.how = "exit" /\ e.runs = ShortRun =>
               LET o == RunShell(tc.args, e, now, ctx)
               IN  o.at = now + 1 /\ o.res = Ok("exit_code=-1\n", o.res.io)

\* the timeout the claim gives for the argument v: the seconds given when
\* they are a whole positive number, the default when v is absent, not a
\* number, zero or negative
ClaimedTimeout(v, default) ==
    IF v.t = "number" /\ v.n > 0 THEN v.n \div 10 ELSE default

\* C18: whatever timeout_sec is (absent, not a number, zero, negative, a
\* fraction, a positive integer), run_shell and fetch_url run under a
\* strictly positive timeout of their own: the seconds given when positive,
\* else the default (30 and 20).
C18_PositiveTimeout ==
    Ran /\ tc.name \in {"run_shell", "fetch_url"} =>
        \A i \in DOMAIN ioLog :
            /\ ioLog[i].limit > 0
            /\ tc.args.timeout_sec.t # "number" \/ tc.args.timeout_sec.n % 10 = 0
                   => ioLog[i].limit =
                          ClaimedTimeout(tc.args.timeout_sec,
                                         IF tc.name = "run_shell" THEN 30 ELSE 20)

\* the timeouts of whole and absent values are as claimed
C18_WholeValues ==
    Ran /\ tc.name \in {"run_shell", "fetch_url"} =>
        \A i \in DOMAIN ioLog :
            tc.args.timeout_sec.t # "number" \/ tc.args.timeout_sec.n % 10 = 0
                => /\ ioLog[i].limit > 0
                   /\ ioLog[i].limit =
                          ClaimedTimeout(tc.args.timeout_sec,
                                         IF tc.name = "run_shell" THEN 30 ELSE 20)

(***************************************************************************)
(* The deadline of a run.                                                  *)
(***************************************************************************)
\* runInference is past its entry
InRun == pc \notin {"called", "idle", "exit"}

\* the operations of the last tc.Run that run under a context
Bounded == {i \in DOMAIN ioLog : ioLog[i].op \in {"exec", "GET"}}

\* C19: a run called without a deadline gets one deadline, 60 seconds after
\* its start, for all its steps; a run called with a deadline keeps it.  No
\* provider call outlasts it, and the context of every command and fetch
\* ends at the earlier of the timeout of its own and the end of the run.
C19_RunDeadline ==
    /\ [](InRun => ctx.deadline = (IF ctx.parent = None THEN runTimeout ELSE ctx.parent))
    /\ [][InRun => ctx' = ctx]_vars
    /\ [][pc = "request" => now' <= Max(now, DoneAt(ctx))]_vars
    /\ [](Ran => \A i \in Bounded :
                    ioLog[i].until =
                        (IF ioLog[i].limit > 0
                         THEN Earlier(DoneAt(ctx), ioLog[i].since + ioLog[i].limit)
                         ELSE DoneAt(ctx)))

\* a command with the default timeout of 30 seconds began after two slow
\* exchanges, so that the deadline of the run comes first
C19_Witness ==
    /\ Ran
    /\ ctx = WithTimeout(Background, 0, runTimeout)
    /\ ioLog # <<>>
    /\ ioLog[1].op = "exec"
    /\ ioLog[1].limit = 30
    /\ ioLog[1].since > 30
    /\ ioLog[1].until = runTimeout

\* C20: when the context of the suspension point in flight is done, by its
\* deadline or by the caller's cancellation, the operation ends at once and
\* its step fails: no provider call, command or fetch outlasts the context
\* of the run, and the step during which the context is done yields an
\* error.
C20_DeadlineEndsOperation ==
    /\ [][(pc = "request" \/ pc = "running") => now' <= Max(now, DoneAt(ctx))]_vars
    /\ [][pc = "request" /\ now < DoneAt(ctx) /\ DoneAt(ctx) <= now'
              => pc' = "failed"]_vars
    /\ [][pc = "running" /\ tc.name \in {"run_shell", "fetch_url"}
              /\ AsString(tc.args.command) \o AsString(tc.args.url) # <<>>
              /\ now < DoneAt(ctx) /\ DoneAt(ctx) <= now'
              => toolRes'.err]_vars

\* provider calls and fetches do end with an error when their context is done
C20_ExchangesAbort ==
    /\ [][pc = "request" => now' <= Max(now, DoneAt(ctx))]_vars
    /\ [][pc = "request" /\ now < DoneAt(ctx) /\ DoneAt(ctx) <= now'
              => pc' = "failed"]_vars
    /\ [][pc = "running" /\ tc.name = "fetch_url"
              => /\ now' <= Max(now, DoneAt(ctx))
                 /\ now < DoneAt(ctx) /\ DoneAt(ctx) <= now' => toolRes'.err]_vars

(***************************************************************************)
(* The ends of a run.                                                      *)
(***************************************************************************)
\* C21: a run invoked with an empty conversation fails at once with the
\* error "conversations must not be empty": no provider request is sent, no
\* tool runs, no time passes; no other run fails with that error.
C21_EmptyConversation ==
    /\ (Len(conversations) = 0 /\ pc # "called")
       => /\ pc = "failed"
          /\ result = Failed("conversations must not be empty")
          /\ nreq = 0
          /\ lastReq = NoRequest
          /\ replyLog = <<>>
          /\ started = <<>>
          /\ tc = NoCall
          /\ ioLog = <<>>
          /\ now = 0
    /\ (result.err /\ result.error = ErrEmpty) => Len(conversations) = 0

C21_Witness ==
    /\ conversations = <<>>
    /\ pc = "failed"
    /\ result.err
    /\ result.error = ErrEmpty
    /\ nreq = 0

\* the step receives a reply without tool calls, without text and with
\* done=false
ReceivesEmpty ==
    /\ pc = "request"
    /\ Len(replyLog') = Len(replyLog) + 1
    /\ Last(replyLog') # "error"
    /\ Len(chatResp'.toolCalls) = 0
    /\ chatResp'.content = ""
    /\ ~chatResp'.done

\* all 5 replies were received without error and none of them was final text
\* or done without text
FiveOpenReplies ==
    /\ pc \notin {"tool", "running"}
    /\ Len(replyLog) = 5
    /\ \A i \in DOMAIN replyLog : replyLog[i] \in {"tools", "empty"}

\* C22: a reply with no tool calls, empty text and done=false does not end
\* the run and leaves the history as it is: it uses up one of the 5 steps and
\* the next request carries the same messages.  The run fails with the
\* step-exceeded error exactly when 5 replies were received without error and
\* none of them was final text or done without text.
C22_EmptyReplyUsesStep ==
    /\ [][ReceivesEmpty =>
            /\ messages' = messages
            /\ step' = step + 1
            /\ nreq' = nreq + 1
            /\ IF Len(replyLog') < 5
               THEN pc' = "request" /\ result' = Pending
               ELSE pc' = "failed" /\ result' = Failed(ErrMaxSteps)]_vars
    /\ [][(IssuesRequest /\ replyLog # <<>> /\ Last(replyLog) = "empty")
            => lastReq'.messages = lastReq.messages]_vars
    /\ []((result.err /\ result.error = ErrMaxSteps) <=> FiveOpenReplies)

\* a run failed after four empty replies and one batch of tools
C22_Witness ==
    /\ pc = "failed"
    /\ result = Failed(ErrMaxSteps)
    /\ replyLog = <<"empty", "tools", "empty", "empty", "empty">>
    /\ Len(lastReq.messages) = Len(messages)
    /\ nreq = 5

\* C23: every run ends, whatever the provider answers (also when each of its
\* replies asks for tools), provided each provider call and each tool
\* invocation returns: the run eventually returns text, returns the empty
\* assistant message, or fails.
C23_Terminates ==
    <>(\/ pc = "returned" /\ ~result.err /\ result.msg.content # ""
       \/ pc = "returned" /\ result = Returned(DoneMessage)
       \/ pc = "failed" /\ result.err)

\* a run in which every reply asked for tools has ended
C23_Witness ==
    /\ pc = "failed"
    /\ result.err
    /\ Len(batches) = maxSteps
    /\ \A i \in DOMAIN replyLog : replyLog[i] = "tools"

(***************************************************************************)
(* The provider request.                                                   *)
(***************************************************************************)
\* the names of the six schemas, in order
CatalogNames ==
    <<"time_now", "read_file", "list_files", "edit_file", "run_shell", "fetch_url">>

\* the request carries the six schemas and stream=false
CarriesCatalog(req) ==
    /\ Len(req.tools) = 6
    /\ \A i \in 1..6 : req.tools[i].name = CatalogNames[i]
    /\ req.stream = FALSE

\* C24: every provider request of a run carries the same catalog, the six
\* schemas time_now, read_file, list_files, edit_file, run_shell, fetch_url in
\* that order, and stream=false; apart from the messages, which are the
\* current history, nothing in it varies, so that equal message lists give
\* equal requests.
C24_SameCatalog ==
    /\ [](replyLog # <<>> => CarriesCatalog(lastReq))
    /\ [][pc = "request" =>
            /\ CarriesCatalog(lastReq')
            /\ lastReq'.messages = messages
            /\ DOMAIN lastReq' = {"model", "messages", "tools", "stream"}
            /\ lastReq'.model = ""
            /\ replyLog # <<>> => lastReq'.tools = lastReq.tools]_vars

\* the third request of a run, with a longer history than the first
C24_Witness ==
    /\ Len(replyLog) = 3
    /\ nreq = 3
    /\ Len(lastReq.messages) > Len(conversations)
    /\ lastReq.tools[4].name = "edit_file"
    /\ lastReq.tools[6].name = "fetch_url"

\* the text s contains the text x
Contains(s, x) ==
    \E i \in 1..(Len(s) - Len(x) + 1) : SubSeq(s, i, i + Len(x) - 1) = x

\* what one invocation of the client does with the answer e of the
\* environment to an exchange that takes d seconds: a failure to send or to
\* read is an error, a status outside 2xx is an error that carries the status
\* code and the body, a body that does not decode is an error
ClientErrors(e, d) ==
    LET r == sendChatRequest(ctx, ProviderRequest(messages), e, now, d)
        built == e.marshal = "ok" /\ e.create = "ok"
        transferred == built /\ e.do = "ok" /\ e.read = "ok" /\ ~CutShort(ctx, now, d)
    IN  /\ r.sent <= 1
        /\ built /\ ~transferred => r.err /\ r.resp = NoResponse
        /\ transferred /\ e.status \notin 200..299 =>
               /\ r.err
               /\ r.resp = NoResponse
               /\ Contains(r.error, ToString(e.status))
               /\ Contains(r.error, e.body)
        /\ transferred /\ e.status = 200 /\ e.decode # "ok" =>
               r.err /\ r.resp = NoResponse
        /\ transferred /\ e.status = 200 /\ e.decode = "ok" =>
               ~r.err /\ r.resp = e.reply

AllClientErrors ==
    pc = "request" =>
        \A e \in ProviderEnvs(budget, world.menu), d \in world.pace : ClientErrors(e, d)

Handled == {"time_now", "read_file", "list_files", "run_shell", "fetch_url"}

\* C26: a call whose name is not, letter for letter, one of the handled
\* names fails with "unknown tool" and the name, performs no file, process
\* or network operation, and is answered to the provider by a tool-result
\* message; a call with a handled name is never answered as unknown.
C26_ExactDispatch ==
    /\ (Ran /\ tc.name \notin Handled)
       => /\ toolRes = Fail("unknown tool: " \o tc.name, <<>>)
          /\ ioLog = <<>>
          /\ Last(messages) = UserMessage("tool", "tool error: unknown tool: " \o tc.name,
                                          tc.id, tc.name)
    /\ (Ran /\ tc.name \in Handled) => ~StartsWith(toolRes.out, "unknown tool")

\* the name Time_Now was answered as an unknown tool
C26_Witness ==
    /\ Ran
    /\ tc.name = "Time_Now"
    /\ toolRes.err
    /\ toolRes.out = "unknown tool: Time_Now"
    /\ ioLog = <<>>
    /\ Last(messages).role = "tool"
    /\ Last(messages).content = "tool error: unknown tool: Time_Now"

\* the argument a tool requires: its key and the value the call gives it
RequiredArg(t) ==
    CASE t.name \in {"read_file", "list_files"} -> [key |-> "path", v |-> t.args.path]
      [] t.name = "run_shell" -> [key |-> "command", v |-> t.args.command]
      [] t.name = "fetch_url" -> [key |-> "url", v |-> t.args.url]

\* the value is absent, not a string, or the empty string
Missing(v) == v.t \in {"absent", "number", "bool"} \/ (v.t = "string" /\ v.s = <<>>)

TakesArg(t) == t.name \in {"read_file", "list_files", "run_shell", "fetch_url"}

\* C27: read_file, list_files, run_shell and fetch_url fail with "missing
\* required argument" and the key when the required argument is absent, a
\* number, a boolean or the empty string; the failure is soft (a tool-result
\* message, the run goes on) and comes before any file system access,
\* subprocess or network request.  A non-empty string is never reported as
\* missing.
C27_MissingArgument ==
    /\ (Ran /\ TakesArg(tc) /\ Missing(RequiredArg(tc).v))
       => /\ toolRes = Fail("missing required argument: " \o RequiredArg(tc).key, <<>>)
          /\ ioLog = <<>>
          /\ Last(messages) =
                 UserMessage("tool", "tool error: missing required argument: "
                                         \o RequiredArg(tc).key, tc.id, tc.name)
          /\ result.err => result.error = ErrMaxSteps
    /\ (Ran /\ TakesArg(tc) /\ ~Missing(RequiredArg(tc).v))
       => ~StartsWith(toolRes.out, "missing required argument")

\* run_shell was given a number as its command
C27_Witness ==
    /\ Ran
    /\ tc.name = "run_shell"
    /\ tc.args.command = NumVal(10)
    /\ toolRes.err
    /\ toolRes.out = "missing required argument: command"
    /\ ioLog = <<>>
    /\ pc = "request"

(***************************************************************************)
(* The caps on the output of run_shell, fetch_url and list_files.          *)
(***************************************************************************)
\* C28: the output part of a run_shell result is the whole output of the
\* command, with no notice, when that is 1,048,576 bytes or less, and else
\* exactly its first 1,048,576 bytes followed by a truncation notice.
C28_ShellOutputCap ==
    pc = "running" /\ tc.name = "run_shell" =>
        \A e \in ShellEnvs(world.pace, world.texts) :
            LET res == RunShell(tc.args, e, now, ctx).res
                head == "exit_code=" \o ToString(ExitCode(e)) \o "\n"
                part == SubSeq(res.out, Len(head) + 1, Len(res.out))
            IN  e.how # "startfail" =>
                    /\ ~res.err
                    /\ StartsWith(res.out, head)
                    /\ IF Len(e.output) <= 1048576
                       THEN part = e.output
                       ELSE /\ Len(part) = 1048576 + Len(TruncatedOutput)
                            /\ SubSeq(part, 1, 1048576) = SubSeq(e.output, 1, 1048576)
                            /\ HasSuffix(part, TruncatedOutput)

\* run_shell has returned the first 1 MiB of an output of 1 MiB + 1 byte
C28_Witness ==
    /\ Ran
    /\ tc.name = "run_shell"
    /\ toolRes = Ok("exit_code=0\n" \o Times("o", 1048575) \o "y" \o TruncatedOutput, ioLog)

\* the line a fetch_url result begins with
StatusLine(e) ==
    "status=" \o ToString(e.status) \o " content_type=\"" \o e.page.ct \o "\"\n"

FetchNotice == "\n... truncated due to 32KB limit ..."

\* the text of a page given as plain text or as the one paragraph of an html
\* document, cut to its first n bytes
TextOf(page, n) ==
    LET cut == SubSeq(page.body, 1, Min(n, Len(page.body)))
    IN  IF page.ct = "text/plain" THEN cut
        ELSE IF page.body = HtmlPage THEN "hi"
        ELSE SubSeq(cut, 4, Len(cut) - (IF Len(page.body) <= n THEN 4 ELSE 0))

\* C29: fetch_url reads at most 1,048,577 bytes of the response body.  A body
\* of 1,048,576 bytes or less is returned whole, converted to text when it
\* is html, with no notice; a longer body is cut to exactly its first
\* 1,048,576 bytes and a truncation notice follows the (converted) body.  The
\* result always begins with the line of the status and the content type.
C29_FetchBodyCap ==
    pc = "running" /\ tc.name = "fetch_url" =>
        \A e \in FetchEnvs(world.pace, world.pages) :
            LET res == RunFetchUrl(tc.args, e, now, ctx).res
                rest == SubSeq(res.out, Len(StatusLine(e)) + 1, Len(res.out))
            IN  e.do = "ok" /\ e.read = "ok" =>
                    /\ ~res.err
                    /\ StartsWith(res.out, StatusLine(e))
                    /\ Len(res.io) = 2
                    /\ res.io[2].op = "body"
                    /\ res.io[2].target <= 1048577
                    /\ res.io[2].target = Min(Len(e.page.body), 1048577)
                    /\ IF Len(e.page.body) <= 1048576
                       THEN rest = TextOf(e.page, 1048576)
                       ELSE rest = TextOf(e.page, 1048576) \o FetchNotice

\* fetch_url has returned the first 1 MiB of a body of 1 MiB + 5 bytes, of
\* which it read 1 MiB + 1 byte
C29_Witness ==
    /\ Ran
    /\ tc.name = "fetch_url"
    /\ Len(ioLog) = 2
    /\ ioLog[2].target = 1048577
    /\ toolRes.out = "status=200 content_type=\"text/plain\"\n"
                         \o Times("o", 1048576) \o FetchNotice

\* the paths of a listing joined by newlines, without the notice
Rendered(out) ==
    IF HasSuffix(out, TruncatedOutput)
    THEN SubSeq(out, 1, Len(out) - Len(TruncatedOutput))
    ELSE out

\* C30: the text list_files renders, the paths joined by newlines without
\* the truncation notice, is never longer than 1,048,576 bytes, however many
\* and however long the collected paths are.
C30_RenderedWithinCap == ListReturned => Len(Rendered(toolRes.out)) <= 1048576

(***************************************************************************)
(* Symbolic links and concurrent writers.                                  *)
(***************************************************************************)
\* the place lies in the directory r or below it
Beneath(r, place) ==
    LET want == Components(r)
        have == Components(place)
    IN  Len(have) >= Len(want) /\ SubSeq(have, 1, Len(want)) = want

\* the operations of the last tc.Run that read a file or enumerate a directory
Touches == {i \in DOMAIN ioLog : ioLog[i].op \in {"read", "walk"}}

\* C31: read_file and list_files never read the content of, nor enumerate, an
\* object that lies outside the root, whatever the file system holds, symbolic
\* links inside the root that point outside it included.
C31_NothingOutsideRoot ==
    Ran /\ tc.name \in {"read_file", "list_files"} /\ ~toolRes.err =>
        \A i \in Touches : Beneath(root, ioLog[i].real)

\* C36: the text a successful read_file returns is never longer than
\* 1,048,576 bytes, also when the file grows between the size check and the
\* read.
C36_ReadWithinLimit ==
    Ran /\ tc.name = "read_file" /\ ~toolRes.err =>
        \A i \in Touches :
            /\ ioLog[i].bytes <= 1048576
            /\ toolRes.out = FileData(ioLog[i].bytes)

(***************************************************************************)
(* The order of the branches on a reply.                                   *)
(***************************************************************************)
\* C32: a reply that lists tool calls is never final, also when it carries
\* text or has done set: its text becomes the content of the assistant
\* message appended to the history, its tools all run, and the run goes on
\* with another request unless the step bound is reached.  An answer is
\* returned only for a reply without tool calls.
C32_ToolCallsFirst ==
    /\ [][pc = "request" /\ Len(chatResp'.toolCalls) > 0 =>
            /\ pc' = "tool"
            /\ result' = Pending
            /\ messages' = Append(messages,
                                  UserMessage(chatResp'.role, chatResp'.content, "", ""))]_vars
    /\ [][pc = "running" /\ pc' \notin {"tool", "running"} =>
            /\ started = chatResp.toolCalls
            /\ Len(messages') = Last(batches).at + Len(chatResp.toolCalls)
            /\ \/ step' < 5 /\ pc' = "request" /\ result' = Pending
               \/ step' = 5 /\ pc' = "failed" /\ result' = Failed(ErrMaxSteps)]_vars
    /\ [](pc = "returned" =>
            /\ chatResp.toolCalls = <<>>
            /\ Last(replyLog) \in {"final", "done"}
            /\ \A i \in DOMAIN batches :
                   messages[batches[i].at].content \in {"", "Let me check."})

\* the tools of a reply with text and done set have run, the text is in the
\* history and the next request is due
C32_Witness ==
    /\ pc = "request"
    /\ AfterReply("tools")
    /\ chatResp.content = "Let me check."
    /\ chatResp.done
    /\ messages[Last(batches).at] = UserMessage("assistant", "Let me check.", "", "")
    /\ Len(BatchResults) = Len(chatResp.toolCalls)

\* the fifth reply of the run lists tool calls
FifthReplyTools == Len(replyLog) = 5 /\ Last(replyLog) = "tools"

\* C33: when the fifth reply lists tool calls, these tools still run, with
\* their effects, and their results are appended to the history, but no
\* request carries them to the provider: the fifth request stays the last and
\* the run fails with the step-exceeded error right after the batch.
C33_LastBatchRuns ==
    FifthReplyTools =>
        /\ nreq = 5
        /\ lastReq.messages = SubSeq(messages, 1, Last(batches).at - 1)
        /\ pc \in {"tool", "running", "failed"}
        /\ pc = "failed" =>
               /\ result = Failed(ErrMaxSteps)
               /\ started = chatResp.toolCalls
               /\ ioLog = toolRes.io
               /\ Len(BatchResults) = Len(chatResp.toolCalls)
               /\ \A i \in DOMAIN BatchResults :
                      BatchResults[i] =
                          UserMessage("tool", BatchResults[i].content,
                                      chatResp.toolCalls[i].id, chatResp.toolCalls[i].name)

\* the command of the fifth reply has run and its output is in the history
\* of a run that has failed with the step-exceeded error
C33_Witness ==
    /\ FifthReplyTools
    /\ pc = "failed"
    /\ result = Failed(ErrMaxSteps)
    /\ tc.name = "run_shell"
    /\ Len(ioLog) = 1 /\ ioLog[1].op = "exec"
    /\ Last(messages).role = "tool"
    /\ Last(messages).content = "exit_code=0\nout"

(***************************************************************************)
(* The conversation kept across the turns of Agent.Run.                    *)
(***************************************************************************)
\* runInference has been called and has not returned
Running ==
    pc = "called" \/ pc = "request" \/ pc = "tool" \/ pc = "running"

\* C34: a run never changes the conversation it was given, and the messages
\* it produces for tool calls and tool results stay in its own history.
\* Each successful turn adds exactly two messages to the conversation, the
\* user message and then the final reply: after k successful turns it holds
\* 2k messages, none with role tool.
C34_ConversationKept ==
    /\ [][Running => conversations' = conversations]_vars
    /\ [][pc = "returned" => conversations' = Append(conversations, result.msg)]_vars
    /\ [][pc = "idle" /\ pc' = "called" =>
            /\ Len(conversations') = Len(conversations) + 1
            /\ SubSeq(conversations', 1, Len(conversations)) = conversations
            /\ Last(conversations').role = "user"]_vars
    /\ [](pc = "idle" => Len(conversations) = 2 * turns)
    /\ [](pc \in {"request", "tool", "running", "returned", "failed"} /\ messages # <<>> =>
            SubSeq(messages, 1, Len(conversations)) = conversations)
    /\ [](\A i \in DOMAIN conversations :
            /\ conversations[i].role = (IF i % 2 = 1 THEN "user" ELSE "assistant")
            /\ conversations[i].role # "tool"
            /\ conversations[i].toolCallId = "")

\* the run of the second turn has used a tool and returned: its history holds
\* the tool messages, the conversation only the three messages it was given
C34_Witness ==
    /\ pc = "returned"
    /\ turns = 2
    /\ Len(conversations) = 3
    /\ Len(messages) > 3
    /\ \E i \in DOMAIN messages : messages[i].role = "tool"

(***************************************************************************)
(* Tool calls that begin after the context of the run is done.             *)
(***************************************************************************)
\* tc asks for a command or for a page and passes the checks of its arguments
AsksForWork ==
    \/ tc.name = "run_shell" /\ AsString(tc.args.command) = Ls
    \/ tc.name = "fetch_url" /\ AsString(tc.args.url) = UrlH

\* tc.Run is running and the context of the run was done before it began
BegunLate == pc = "running" /\ IsDone(ctx, now)

\* a call begun after the context is done starts no process and sends no
\* request: run_shell returns exit code -1 and no output, fetch_url fails
LateCallsDoNothing ==
    [][BegunLate /\ AsksForWork =>
        /\ ioLog' = <<>>
        /\ now' = now
        /\ tc.name = "run_shell" => toolRes' = Ok("exit_code=-1\n", <<>>)
        /\ tc.name = "fetch_url" =>
               /\ toolRes'.err
               /\ Last(messages').content \in
                      {"tool error: request failed: context canceled",
                       "tool error: request failed: context deadline exceeded"}]_vars

\* a provider call made once the context is done fails the run
LateRequestFails ==
    [][pc = "request" /\ IsDone(ctx, now) =>
        pc' = "failed" /\ result'.err /\ chatResp' = NoResponse]_vars

\* C35: once the deadline of the run has passed or the run is cancelled, the
\* remaining tool calls of the batch start no process and send no request
\* (run_shell yields exit_code=-1, fetch_url a tool error), and the run then
\* makes its next provider call, where it fails instead of returning an
\* answer.
C35_FailsAtNextRequest ==
    /\ LateCallsDoNothing
    /\ LateRequestFails
    /\ [][pc = "running" /\ IsDone(ctx, now') /\ pc' # "tool" => pc' = "request"]_vars

\* C35, with the step bound: after a batch that ends with the context done
\* the run fails at its next provider call, or, when the batch answered the
\* fifth reply, with the step-exceeded error; it never returns an answer.
C35_NoWorkAfterDone ==
    /\ LateCallsDoNothing
    /\ LateRequestFails
    /\ [][pc = "running" /\ IsDone(ctx, now') /\ pc' # "tool" =>
            \/ step' < 5 /\ pc' = "request"
            \/ step' = 5 /\ pc' = "failed" /\ result' = Failed(ErrMaxSteps)]_vars
    /\ [](IsDone(ctx, now) => pc # "returned")

\* the second call of a batch, a command, began after the run was cancelled
\* and started no process; the provider call after it has failed the run
C35_Witness ==
    /\ pc = "failed"
    /\ tcIdx = 2
    /\ tc.name = "run_shell"
    /\ toolRes = Ok("exit_code=-1\n", <<>>)
    /\ ioLog = <<>>
    /\ IsDone(ctx, now)
    /\ Last(replyLog) = "error"
    /\ result.error = "request ollama: context canceled"

(***************************************************************************)
(* Which path arguments the confinement check lets through.                *)
(***************************************************************************)
\* tc is a read_file or list_files call with a path, about to return
PathCall ==
    /\ pc = "running"
    /\ tc.name \in {"read_file", "list_files"}
    /\ AsString(tc.args.path) # <<>>

\* what tc.Run returns for the path call tc when os.Getwd succeeds
PathResults ==
    IF tc.name = "read_file"
    THEN {RunReadFile(tc.args, root, e) : e \in {f \in FileEnvs : f.getwd = "ok"}}
    ELSE {RunListFiles(tc.args, root, e) : e \in {f \in DirEnvs(world.disk) : f.getwd = "ok"}}

\* the call is refused by the confinement check
Refused(res) == res.err /\ res.out = "access outside project root is not allowed"

\* the normalized form of p begins with the component ..
Climbs(p) ==
    LET c == Components(Clean(p))
    IN  p[1] # "/" /\ c # <<>> /\ c[1] = <<".", ".">>

\* the operations of res name the place p re-rooted below the directory r
ReRooted(res, r, p) ==
    \A i \in DOMAIN res.io :
        Components(res.io[i].target) = Components(r) \o Components(Clean(p))

\* the confinement check refuses only arguments that climb above the root,
\* and an absolute argument names its place below the root
ReRoots ==
    \A res \in PathResults :
        LET p == AsString(tc.args.path)
        IN  /\ Refused(res) => Climbs(p)
            /\ p[1] = "/" => ~Refused(res) /\ ReRooted(res, root, p)

\* C37: an absolute path argument is not refused by the confinement check:
\* it names the place of the same name below the root; the check refuses
\* only the arguments whose normalized form climbs above the root through
\* '..'.
C37_AbsoluteReRooted == PathCall => ReRoots

\* the same in every root directory other than /
C37_ReRootedBelowRoot == PathCall /\ root # <<"/">> => ReRoots

\* C39: in every root directory, the root / included, the confinement check
\* lets through every path argument that normalizes to a place inside the
\* root.
C39_InsideAccepted ==
    PathCall =>
        \A res \in PathResults :
            ~Outside(root, AsString(tc.args.path)) => ~Refused(res)

\* the same in every root directory other than /
C39_InsideAcceptedBelowRoot ==
    PathCall /\ root # <<"/">> =>
        \A res \in PathResults :
            ~Outside(root, AsString(tc.args.path)) => ~Refused(res)

(***************************************************************************)
(* What a listing holds.                                                   *)
(***************************************************************************)
\* the entries below the target that are not directories, in walk order
FileEntries(tree) ==
    SelectSeq([i \in 1..EntriesUpTo(tree, Len(tree)) |-> EntryAt(tree, i)],
              LAMBDA d : ~d.dir)

\* their full paths, those that begin with the root and a separator
FullPaths(tree, joined, r) ==
    SelectSeq([i \in 1..Len(FileEntries(tree)) |->
                  Str(Join(joined, FileEntries(tree)[i].rel))],
              LAMBDA path : StartsWith(path, Str(r) \o "/"))

\* lines joined by single newlines
RECURSIVE JoinLines(_)
JoinLines(lines) ==
    IF lines = <<>> THEN ""
    ELSE IF Len(lines) = 1 THEN lines[1]
    ELSE lines[1] \o "\n" \o JoinLines(Tail(lines))

\* every entry of the tree can be read
Readable(tree) == \A i \in DOMAIN tree : ~tree[i].bad

\* C38: list_files returns the entries below its target that are not
\* directories, and only these, each as a full path that begins with the
\* root and a separator, in the order of the walk and joined by single
\* newlines; it fails, without walking, when the target does not exist or is
\* not a directory.
C38_ListingContent ==
    pc = "running" /\ tc.name = "list_files" /\ AsString(tc.args.path) # <<>> =>
        \A e \in DirEnvs(world.disk) :
            LET joined == Join(root, Clean(AsString(tc.args.path)))
                res == RunListFiles(tc.args, root, e)
            IN  e.getwd = "ok" /\ WithinRoot(joined, root) =>
                    /\ e.stat = "enoent" => res.err /\ res.out = "stat path: ENOENT"
                    /\ e.stat = "file" => res.err /\ res.out = "path is not a directory"
                    /\ e.stat # "dir" => \A i \in DOMAIN res.io : res.io[i].op # "walk"
                    /\ e.stat = "dir" /\ Readable(e.tree) =>
                           /\ ~res.err
                           /\ res.out = JoinLines(FullPaths(e.tree, joined, root))

\* the listing of a directory that holds a directory with one file, and one
\* file of its own
C38_Witness ==
    /\ ListReturned
    /\ root = <<"/", "a">>
    /\ toolRes.out = "/a/d/f10001\n/a/g10001"

====
